---- MODULE Spec2Model ----
(***************************************************************************)
(* Model of the pubmed-analysis-system core: the AI service manager        *)
(* (registry, status map, result cache, retry loop), the adapters'         *)
(* configuration merge, and the TF-IDF keyword extraction service.         *)
(***************************************************************************)
EXTENDS Integers, Sequences, FiniteSets, TLC

(***************************************************************************)
(* Bounds of the model.                                                    *)
(***************************************************************************)
\* The clock (Date.now(), in milliseconds) runs from 0 to MaxTime.
MaxTime == 2

(***************************************************************************)
(* AI service manager: constants of the source.                            *)
(***************************************************************************)
\* this.config.maxRetries || 3
DefaultMaxRetries == 3
\* this.config.cacheTimeout || 300000
DefaultCacheTimeout == 300000
\* this.config.retryDelay || 1000
DefaultRetryDelay == 1000

\* Names a caller can pass as a model name.
ModelNames == {"deepseek", "claude"}
\* preferredModel left out of the options (undefined).
NoModel == "undefined"
\* The two manager operations that share the cache / retry code.
Operations == {"generateText", "batchAnalyze"}
\* Prompts (for batchAnalyze: item lists) a caller can pass.
Prompts == {"p"}
\* The error the adapter rejects attempt n with: every attempt fails with an
\* error of its own, so that the errors of one invocation can be told apart.
AdapterError(n) == <<"e1", "e2", "e3">>[n]
\* Invocations that can be in flight at the same time.
Calls == {"c1", "c2"}

\* The manager configurations the constructor can be given (the values are
\* spread over the defaults, so every field can be any number / boolean).
\* A field set to 0 is falsy and falls back to the default of the code.
ManagerConfigs ==
    {[enableCaching |-> TRUE,  cacheTimeout |-> 1, maxRetries |-> 2, retryDelay |-> 1],
     [enableCaching |-> FALSE, cacheTimeout |-> 1, maxRetries |-> 1, retryDelay |-> 1],
     [enableCaching |-> TRUE,  cacheTimeout |-> 0, maxRetries |-> 0, retryDelay |-> 1],
     [enableCaching |-> TRUE,  cacheTimeout |-> 1, maxRetries |-> 2, retryDelay |-> 0]}

VARIABLES
    config,         \* AIServiceManager.config
    adapters,       \* AIServiceManager.adapters: the registered names
    modelStatuses,  \* AIServiceManager.modelStatuses: name -> ModelStatus
    cache,          \* AIServiceManager.cache: key -> {data, timestamp}
    now,            \* Date.now()
    calls,          \* the generateText / batchAnalyze invocations of the run
    test,           \* the testModelConnection invocation of the run
    adapterConfig,  \* BaseAdapter.config of the adapter registered under a name
    lastUpdate,     \* history: the last updateConfig call and the config before it
    client,         \* the vendor client an adapter holds (ClaudeAdapter.client)
    stopWords,      \* TFIDFService.stopWords
    resultCache,    \* TFIDFService.cache: entries in insertion order
    lastCall,       \* history: the last extractKeywords call and what it returned
    callCount,  \* number of extractKeywords calls made so far
    adapterCall,    \* the DeepSeekAdapter.testConnection / generateText call of the run
    serviceConfig,  \* DeepSeekService.apiKey and baseUrl
    legacy,         \* the /analyze/article and /analyze/batch requests of the run
    lastRequestTime,\* PubMedService.lastRequestTime
    pubmed,         \* the searchArticles / getArticleById calls of the run
    requestLog      \* history: the times at which esearch / efetch requests started

mgrVars == <<config, adapters, modelStatuses, cache, now, calls, test>>
adapterVars == <<adapterConfig, lastUpdate, client>>
scorerVars == <<stopWords, resultCache, lastCall, callCount>>
serviceVars == <<adapterCall, serviceConfig, legacy, lastRequestTime, pubmed, requestLog>>

vars == <<mgrVars, adapterVars, scorerVars, serviceVars>>

(***************************************************************************)
(* TFIDFService (api/services/tfidf.ts): text, numbers and options.        *)
(*                                                                         *)
(* A string is a tuple of its UTF-16 code units; a code unit is written as *)
(* the character itself, or as "U+hhhh" for a CJK ideograph.  A number is  *)
(* a fraction <<n, d>> in lowest terms; an option that is not set is       *)
(* Unset.  A logarithm is kept as the fraction it is taken of.             *)
(***************************************************************************)
MaxCalls == 3               \* extractKeywords calls per behaviour
cacheMaxSize == 100
DefaultMinWordLength == 3

LowerLetters == {"a", "b", "e", "f", "h", "o", "r", "t", "z"}
UpperLetters == {"F"}
Digits == {"1", "2", "3"}
CJK == {"U+764C", "U+7684"}

charCodeAt ==
    [c \in LowerLetters \cup UpperLetters \cup Digits \cup CJK \cup {" ", "|", "-", "_"} |->
        CASE c = "a" -> 97  [] c = "b" -> 98  [] c = "e" -> 101 [] c = "f" -> 102
          [] c = "h" -> 104 [] c = "o" -> 111 [] c = "r" -> 114 [] c = "t" -> 116
          [] c = "z" -> 122 [] c = "F" -> 70  [] c = "1" -> 49  [] c = "2" -> 50
          [] c = "3" -> 51  [] c = " " -> 32  [] c = "|" -> 124 [] c = "-" -> 45
          [] c = "_" -> 95  [] c = "U+764C" -> 30284 [] c = "U+7684" -> 30340]

\* Mutant of toLowerCase: the text is left as it is.
toLowerCase_asIs(text) == text

\* String.prototype.toLowerCase, per code unit.
toLowerCase(text) ==
    [i \in 1..Len(text) |-> IF text[i] = "F" THEN "f" ELSE text[i]]

RECURSIVE GCD(_, _)
GCD(a, b) == IF b = 0 THEN a ELSE GCD(b, a % b)

\* The number n / d (n >= 0, d > 0).
Frac(n, d) == <<n \div GCD(n, d), d \div GCD(n, d)>>

Unset == <<0, 0>>
FracLess(x, y) == x[1] * y[2] < y[1] * x[2]
FracAdd(x, y) == Frac(x[1] * y[2] + y[1] * x[2], x[2] * y[2])
Floor(x) == x[1] \div x[2]
Max(a, b) == IF a >= b THEN a ELSE b
Min(a, b) == IF a <= b THEN a ELSE b

\* value || fallback: an unset option and the number 0 are falsy.
OrDefault(value, fallback) ==
    IF value = Unset \/ value[1] = 0 THEN fallback ELSE value

\* The sign of Math.log(x) for a fraction x.
LogSign(x) == IF x[1] > x[2] THEN 1 ELSE IF x[1] = x[2] THEN 0 ELSE -1

\* 1000 * Math.log(x), rounded, for the fractions of small numbers.  Two scores
\* over at most three documents differ in sign or share the logarithm, so the
\* rounding never decides a comparison.
LogMilli(x) ==
    CASE x = <<1, 1>> -> 0
      [] x = <<1, 2>> -> -693  [] x = <<2, 1>> -> 693
      [] x = <<2, 3>> -> -405  [] x = <<3, 2>> -> 405
      [] x = <<3, 4>> -> -288  [] x = <<4, 3>> -> 288
      [] x = <<4, 5>> -> -223  [] x = <<3, 1>> -> 1099
      [] x = <<4, 1>> -> 1386

\* A score q * Math.log(x): a product with Math.log(1) = 0 is 0.
Score(q, x) == IF x = <<1, 1>> THEN [q |-> <<0, 1>>, log |-> x] ELSE [q |-> q, log |-> x]

\* a < b for two scores.
ScoreLess(a, b) ==
    a.q[1] * LogMilli(a.log) * b.q[2] < b.q[1] * LogMilli(b.log) * a.q[2]

\* The words of the documents below.
Word ==
    [Foo |-> <<"F", "o", "o">>, foo |-> <<"f", "o", "o">>, bar |-> <<"b", "a", "r">>,
     baz |-> <<"b", "a", "z">>, oof |-> <<"o", "o", "f">>, rab |-> <<"r", "a", "b">>,
     zab |-> <<"z", "a", "b">>, arf |-> <<"a", "r", "f">>, the |-> <<"t", "h", "e">>,
     sp  |-> <<" ">>]

\* The document collections extractKeywords is called with.
Corpora ==
    {<< >>,
     <<Word.foo \o <<"|">> \o Word.foo \o Word.sp \o Word.bar>>,
     <<Word.foo, Word.foo \o Word.sp \o Word.bar>>,
     <<Word.Foo \o Word.sp \o Word.bar \o Word.sp \o Word.baz \o Word.sp \o Word.oof
           \o Word.sp \o Word.rab \o Word.sp \o Word.zab \o Word.sp \o Word.arf,
       Word.foo \o Word.sp \o Word.bar \o Word.sp \o Word.the,
       Word.foo \o <<"U+764C", "U+7684">> \o Word.sp \o <<"1", "2", "3">>>>}

\* TFIDFOptions (language, which the code never reads, is left out).
Options(minWordLength, maxWordFrequency, maxDocumentFrequency, topPercentage) ==
    [minWordLength |-> minWordLength, maxWordFrequency |-> maxWordFrequency,
     maxDocumentFrequency |-> maxDocumentFrequency, topPercentage |-> topPercentage]

OptionSets ==
    {Options(Unset, Unset, Unset, Unset),
     Options(Unset, Unset, <<1, 1>>, <<2, 1>>),
     Options(Unset, Unset, Unset, <<0, 1>>),
     Options(<<1, 1>>, <<1, 1>>, <<1, 2>>, <<1, 2>>)}

\* The arrays addStopWords / removeStopWords are called with.
StopWordInputs == {<<Word.Foo>>, <<Word.foo, Word.Foo>>}

\* initializeStopWords(): of the seeded list, the words the collections
\* above can contain ('the' and U+7684).
initializeStopWords == {Word.the, <<"U+7684">>}

\* The stopword sets the calls above can produce.
StopWordSets == {initializeStopWords, initializeStopWords \cup {Word.foo}}

(***************************************************************************)
(* tokenize and filterWords.                                               *)
(***************************************************************************)
IsCJK(char) == char \in CJK

\* [^\w\u4e00-\u9fff\s-] is replaced by a space.
Sanitize(text) ==
    [i \in 1..Len(text) |->
        IF \/ text[i] \in LowerLetters \cup UpperLetters \cup Digits \cup {"_"}
           \/ IsCJK(text[i])
           \/ text[i] \in {" ", "-"}
        THEN text[i] ELSE " "]

\* The elements of seq at the indices in kept, in their order.
Pick(seq, kept) ==
    [k \in 1..Cardinality(kept) |->
        seq[CHOOSE i \in kept : Cardinality({j \in kept : j < i}) = k - 1]]

\* [a-zA-Z0-9-]
IsWordPart(char) == char \in LowerLetters \cup UpperLetters \cup Digits \cup {"-"}

\* text.split(/\s+/).filter(segment => segment.length > 0): the bounds of
\* the segment that the non-blank position i lies in.
SegmentStart(text, i) ==
    CHOOSE s \in 1..i : /\ \A j \in s..i : text[j] # " "
                        /\ (s = 1 \/ text[s - 1] = " ")

SegmentEnd(text, i) ==
    CHOOSE e \in i..Len(text) : /\ \A j \in i..e : text[j] # " "
                                /\ (e = Len(text) \/ text[e + 1] = " ")

\* /[\u4e00-\u9fff]/.test(segment), for the segment of position i.
SegmentHasCJK(text, i) ==
    \E j \in SegmentStart(text, i)..SegmentEnd(text, i) : IsCJK(text[j])

\* A word is pushed that starts at position i: a whole segment without CJK;
\* in a segment with CJK, every ideograph by itself and every run of
\* [a-zA-Z0-9-] that the character loop collects in currentWord.
StartsWord(text, i) ==
    /\ text[i] # " "
    /\ IF SegmentHasCJK(text, i)
       THEN \/ IsCJK(text[i])
            \/ /\ IsWordPart(text[i])
               /\ (i = SegmentStart(text, i) \/ ~IsWordPart(text[i - 1]))
       ELSE i = SegmentStart(text, i)

\* The last position of the word that starts at position i.
WordEnd(text, i) ==
    IF ~SegmentHasCJK(text, i) THEN SegmentEnd(text, i)
    ELSE IF IsCJK(text[i]) THEN i
    ELSE CHOOSE e \in i..Len(text) : /\ \A j \in i..e : IsWordPart(text[j])
                                     /\ (e = Len(text) \/ ~IsWordPart(text[e + 1]))

tokenize(text) ==
    IF text = << >> THEN << >>
    ELSE LET clean  == Sanitize(toLowerCase(text))
             starts == Pick([i \in 1..Len(clean) |-> i],
                            {i \in 1..Len(clean) : StartsWord(clean, i)})
         IN [k \in 1..Len(starts) |-> SubSeq(clean, starts[k], WordEnd(clean, starts[k]))]

\* The predicate of filterWords for one word.
KeepWord(word, options, sw) ==
    LET minLength == OrDefault(options.minWordLength, <<DefaultMinWordLength, 1>>)
    IN /\ ~(Len(word) * minLength[2] < minLength[1])
       /\ word \notin sw
       /\ ~(\A j \in 1..Len(word) : word[j] \in Digits)
       /\ ~(Len(word) = 1 /\ ~IsCJK(word[1]))

filterWords(words, options, sw) ==
    Pick(words, {i \in 1..Len(words) : KeepWord(words[i], options, sw)})

(***************************************************************************)
(* calculateTF, calculateIDF and the fresh computation of extractKeywords. *)
(***************************************************************************)
Count(words, word) == Cardinality({i \in 1..Len(words) : words[i] = word})
Includes(words, word) == \E i \in 1..Len(words) : words[i] = word

\* The keys of a Map filled word by word, in insertion order.
Distinct(words) ==
    Pick(words, {i \in 1..Len(words) : \A j \in 1..(i - 1) : words[j] # words[i]})

RECURSIVE Concat(_, _)
Concat(docs, i) == IF i > Len(docs) THEN << >> ELSE docs[i] \o Concat(docs, i + 1)

\* calculateTF(words).get(word): count / totalWords.
calculateTF(words, word) == Frac(Count(words, word), Len(words))

\* Mutant of IdfArgument: no +1 in the denominator.
IdfArgument_unsmoothed(totalDocuments, df) == Frac(totalDocuments, df)

\* The argument of Math.log in calculateIDF.
IdfArgument(totalDocuments, df) == Frac(totalDocuments, df + 1)

\* calculateIDF(documents, vocabulary): one {word, df, idf} per word.
calculateIDF(documents, vocabulary) ==
    [v \in 1..Len(vocabulary) |->
        LET df == Cardinality({d \in 1..Len(documents) : Includes(documents[d], vocabulary[v])})
        IN [word |-> vocabulary[v], df |-> df, idf |-> IdfArgument(Len(documents), df)]]

RECURSIVE SumTF(_, _, _)
SumTF(docs, d, word) ==
    IF d > Len(docs) THEN <<0, 1>>
    ELSE IF Includes(docs[d], word)
         THEN FracAdd(calculateTF(docs[d], word), SumTF(docs, d + 1, word))
         ELSE SumTF(docs, d + 1, word)

\* Mutant of ExceedsDocumentFrequency: the document-frequency filter is off.
ExceedsDocumentFrequency_off(result, options) == FALSE

\* result.df > (options.maxDocumentFrequency || 0.8)
ExceedsDocumentFrequency(result, options) ==
    FracLess(OrDefault(options.maxDocumentFrequency, <<4, 5>>), result.df)

\* options.maxWordFrequency && options.maxWordFrequency >= 1
\*   && result.frequency > options.maxWordFrequency
ExceedsWordFrequency(result, options) ==
    /\ OrDefault(options.maxWordFrequency, Unset) # Unset
    /\ options.maxWordFrequency[1] >= options.maxWordFrequency[2]
    /\ FracLess(options.maxWordFrequency, <<result.frequency, 1>>)

\* results.filter(...): the results neither filter drops.
FilterResults(results, options) ==
    Pick(results, {i \in 1..Len(results) :
                      /\ ~ExceedsWordFrequency(results[i], options)
                      /\ ~ExceedsDocumentFrequency(results[i], options)})

\* The place of results[i] after a stable sort, descending by tfidf: behind
\* the results with a greater score and the earlier ones with an equal score.
SortedPosition(results, i) ==
    1 + Cardinality({j \in 1..Len(results) :
                        ScoreLess(results[i].tfidf, results[j].tfidf)})
      + Cardinality({j \in 1..(i - 1) :
                        /\ ~ScoreLess(results[i].tfidf, results[j].tfidf)
                        /\ ~ScoreLess(results[j].tfidf, results[i].tfidf)})

\* results.sort((a, b) => b.tfidf - a.tfidf)
SortByScore(results) ==
    [p \in 1..Len(results) |->
        results[CHOOSE i \in 1..Len(results) : SortedPosition(results, i) = p]]

\* Mutant of KeepCount: no lower bound of 1.
KeepCount_noFloor(length, options) ==
    Floor(<<length * OrDefault(options.topPercentage, <<7, 20>>)[1],
            OrDefault(options.topPercentage, <<7, 20>>)[2]>>)

\* Math.max(1, Math.floor(length * (options.topPercentage || 0.35)))
KeepCount(length, options) ==
    Max(1, Floor(<<length * OrDefault(options.topPercentage, <<7, 20>>)[1],
                   OrDefault(options.topPercentage, <<7, 20>>)[2]>>))

\* extractKeywords past the cache lookup (lines 207-311), under the
\* stopword set sw: the list, and what the computation went through.
Compute(documents, options, sw) ==
    LET processedDocs == [d \in 1..Len(documents) |->
                             filterWords(tokenize(documents[d]), options, sw)]
        allWords   == Concat(processedDocs, 1)
        vocabulary == Distinct(allWords)
        idfMap     == calculateIDF(processedDocs, vocabulary)
        results    == [v \in 1..Len(vocabulary) |->
            LET word  == vocabulary[v]
                idf   == idfMap[v].idf
                sum   == SumTF(processedDocs, 1, word)
                count == Cardinality({d \in 1..Len(processedDocs) :
                                         Includes(processedDocs[d], word)})
            IN [word |-> word,
                tf |-> Score(Frac(sum[1], sum[2] * Len(documents)), idf),
                df |-> Frac(idfMap[v].df, Len(documents)),
                idf |-> idf,
                tfidf |-> Score(Frac(sum[1], sum[2] * count), idf),
                frequency |-> Count(allWords, word),
                documentCount |-> idfMap[v].df]]
        filteredResults == SortByScore(FilterResults(results, options))
        keepCount == KeepCount(Len(filteredResults), options)
    IN [result |-> SubSeq(filteredResults, 1, Min(keepCount, Len(filteredResults))),
        filteredCount |-> Len(filteredResults),
        idfMap |-> idfMap,
        processedDocs |-> processedDocs,
        documents |-> documents,
        options |-> options]

\* A function over a finite domain, tabulated when it is first compared.
Tabulated(f) == IF f = f THEN f ELSE f

\* Compute over the inputs of the model, evaluated once.
ComputeTable ==
    Tabulated([d \in Corpora, o \in OptionSets, sw \in StopWordSets |-> Compute(d, o, sw)])

(***************************************************************************)
(* The cache of TFIDFService.                                              *)
(***************************************************************************)
\* documents.join('|')
RECURSIVE Join(_, _)
Join(documents, i) ==
    IF i > Len(documents) THEN << >>
    ELSE IF i = Len(documents) THEN documents[i]
    ELSE documents[i] \o <<"|">> \o Join(documents, i + 1)

\* 32-bit integers, as the hash is after hash & hash, are kept as their two
\* 16-bit halves <<high, low>>.  The product of two 16-bit numbers:
Mul16(u, v) ==
    LET t   == (u \div 256) * v
        low == (t % 256) * 256 + (u % 256) * v
    IN <<t \div 256 + low \div 65536, low % 65536>>

\* x * y modulo 2^32.
Mul32(x, y) ==
    <<(Mul16(x[2], y[2])[1] + Mul16(x[1], y[2])[2] + Mul16(x[2], y[1])[2]) % 65536,
      Mul16(x[2], y[2])[2]>>

\* x + y modulo 2^32.
Add32(x, y) ==
    <<(x[1] + y[1] + (x[2] + y[2]) \div 65536) % 65536, (x[2] + y[2]) % 65536>>

\* One pass of the loop: hash = ((hash << 5) - hash) + char; hash = hash & hash,
\* that is 31 * hash + char modulo 2^32.
HashStep(hash, char) == Add32(Mul32(hash, <<0, 31>>), <<0, char>>)

\* 31^k modulo 2^32.
RECURSIVE Pow31(_)
Pow31(k) ==
    IF k = 0 THEN <<0, 1>>
    ELSE IF k % 2 = 0 THEN Mul32(Pow31(k \div 2), Pow31(k \div 2))
    ELSE Mul32(<<0, 31>>, Pow31(k - 1))

\* The loop over the code units from..to of combined, started at hash 0: the
\* passes over the first half, carried through the passes over the second
\* half (each of which multiplies by 31), plus the second half's own.
RECURSIVE HashRange(_, _, _)
HashRange(combined, from, to) ==
    IF from > to THEN <<0, 0>>
    ELSE IF from = to THEN HashStep(<<0, 0>>, charCodeAt[combined[from]])
    ELSE LET mid == (from + to) \div 2
         IN Add32(Mul32(HashRange(combined, from, mid), Pow31(to - mid)),
                  HashRange(combined, mid + 1, to))

\* hashDocuments(documents): the 32-bit value whose decimal rendering,
\* one-to-one on 32-bit values, is returned.
hashDocuments(documents) ==
    HashRange(Join(documents, 1), 1, Len(Join(documents, 1)))

\* The keys of TFIDFOptions, in the order of the interface.
OptionKeys ==
    <<"minWordLength", "maxWordFrequency", "maxDocumentFrequency", "topPercentage">>

\* JSON.stringify(options): the keys that are set, each with its number.
RECURSIVE StringifyFrom(_, _, _)
StringifyFrom(options, k, text) ==
    IF k > Len(OptionKeys) THEN text
    ELSE StringifyFrom(options, k + 1,
            IF options[OptionKeys[k]] = Unset THEN text
            ELSE Append(text, <<OptionKeys[k], options[OptionKeys[k]]>>))

stringify(options) == StringifyFrom(options, 1, << >>)

\* `${docHash}_${optionsStr}`
generateTfidfCacheKey(documents, options) ==
    <<hashDocuments(documents), stringify(options)>>

\* generateTfidfCacheKey over the inputs of the model, evaluated once.
CacheKeyTable ==
    Tabulated([d \in Corpora, o \in OptionSets |-> generateTfidfCacheKey(d, o)])

\* this.cache.has(key)
CacheHas(entries, key) == \E i \in 1..Len(entries) : entries[i].key = key

\* this.cache.get(key)
CacheGet(entries, key) == entries[CHOOSE i \in 1..Len(entries) : entries[i].key = key]

\* What this.cache.set(key, result) adds: the list, and with it the
\* filteredCount, the documents and the options of the computation that
\* produced it.
CacheEntry(key, computed) ==
    [key |-> key, result |-> computed.result, filteredCount |-> computed.filteredCount,
     documents |-> computed.documents, options |-> computed.options]

\* setCacheResult without the deletion of the first key.
setCacheResult_noEvict(entries, key, computed) ==
    Append(entries, CacheEntry(key, computed))

\* setCacheResult(key, result) for a key the cache does not hold.
setCacheResult(entries, key, computed) ==
    Append(IF Len(entries) >= cacheMaxSize THEN Tail(entries) ELSE entries,
           CacheEntry(key, computed))

NoCall ==
    [called |-> FALSE, documents |-> << >>, options |-> Options(Unset, Unset, Unset, Unset),
     result |-> << >>, fromCache |-> FALSE, computed |-> FALSE, filteredCount |-> 0,
     idfMap |-> << >>, processedDocs |-> << >>, repeated |-> FALSE, previous |-> << >>,
     stopWordsChanged |-> FALSE]

\* The service as constructed, before any call.
ScorerIdle ==
    /\ stopWords = initializeStopWords
    /\ resultCache = << >>
    /\ lastCall = NoCall
    /\ callCount = 0

\* modelStatuses.get(name) === undefined
NoStatus == [present |-> FALSE, isAvailable |-> FALSE, hasLatency |-> FALSE,
             error |-> "undefined"]
\* cache.get(key) === undefined
NoEntry == [present |-> FALSE, data |-> "undefined", timestamp |-> 0]
\* A ModelStatus record (lastChecked is a timestamp nothing reads).
Status(avail, lat, err) ==
    [present |-> TRUE, isAvailable |-> avail, hasLatency |-> lat, error |-> err]

\* The statuses a caller of setModelStatus can pass.
StatusInputs == {Status(a, FALSE, "undefined") : a \in BOOLEAN}

\* generateCacheKey(operation, {prompt, options}): preferredModel has been
\* destructured away from the options before the key is built.
generateCacheKey(operation, prompt) == <<operation, prompt>>

CacheKeys == {generateCacheKey(o, p) : o \in Operations, p \in Prompts}

\* this.config.maxRetries || 3
EffMaxRetries == IF config.maxRetries = 0 THEN DefaultMaxRetries ELSE config.maxRetries
\* this.config.cacheTimeout || 300000
EffCacheTimeout == IF config.cacheTimeout = 0 THEN DefaultCacheTimeout ELSE config.cacheTimeout
\* this.config.retryDelay || 1000
EffRetryDelay == IF config.retryDelay = 0 THEN DefaultRetryDelay ELSE config.retryDelay

\* isModelAvailable(modelName): status?.isAvailable || false
isModelAvailable(modelName) ==
    modelStatuses[modelName].present /\ modelStatuses[modelName].isAvailable

\* Mutant of CacheFresh: an entry exactly cacheTimeout old still counts.
CacheFresh_inclusive(key) ==
    cache[key].present /\ now - cache[key].timestamp <= EffCacheTimeout

\* getFromCache(key): cached && Date.now() - cached.timestamp < cacheTimeout
CacheFresh(key) ==
    cache[key].present /\ now - cache[key].timestamp < EffCacheTimeout

\* getFromCache(key): the value returned (NoEntry stands for null).
CacheLookup(key) ==
    IF ~config.enableCaching THEN NoEntry
    ELSE IF CacheFresh(key) THEN cache[key] ELSE NoEntry

\* getFromCache(key): the cache it leaves behind (a miss deletes the key).
CacheAfterLookup(key) ==
    IF ~config.enableCaching THEN cache
    ELSE IF CacheFresh(key) THEN cache ELSE [cache EXCEPT ![key] = NoEntry]

\* saveToCache that stores nothing.
saveToCache_skip(c, key, data) == c

\* saveToCache(key, data) applied to cache c.
saveToCache(c, key, data) ==
    IF ~config.enableCaching THEN c
    ELSE [c EXCEPT ![key] = [present |-> TRUE, data |-> data, timestamp |-> now]]

(***************************************************************************)
(* Adapter configuration (BaseAdapter) and the values it holds.            *)
(***************************************************************************)
\* The ModelConfig fields the routes set.
Fields == {"apiKey", "baseUrl", "model"}
\* An object that has no such key.
Absent == "<absent>"
\* A key that is present and holds undefined.
Undefined == "<undefined>"
\* A config object without any key.
NoConfig == [f \in Fields |-> Absent]
NoUpdate == [name |-> "none", before |-> NoConfig, partial |-> NoConfig,
             viaRoute |-> FALSE]

\* An adapter that holds no vendor client (this.client === null).
NoClient == [built |-> FALSE, apiKey |-> Absent, baseUrl |-> Absent]

\* No testModelConnection call has been made.
NoTest ==
    [pc |-> "idle", name |-> "none", registered |-> FALSE, startedAt |-> 0,
     success |-> FALSE, hasLatency |-> FALSE, error |-> "undefined"]

IdleCall ==
    [pc |-> "idle", op |-> "none", prompt |-> "none", model |-> NoModel,
     hasAdapter |-> FALSE, attempt |-> 0, lastError |-> "null", wakeAt |-> 0,
     outcome |-> "none", value |-> "none",
     \* history of the invocation, read by the properties only
     adapterCalls |-> 0, finalErr |-> "null", fromCache |-> FALSE,
     seenAge |-> -1, seenData |-> "undefined", availAtStart |-> FALSE,
     regAtStart |-> FALSE, configError |-> FALSE,
     sinceFresh |-> -1, doneAt |-> 0,
     \* history of the /generate request that made the invocation
     suppliedKey |-> Absent, configBefore |-> NoConfig, statusBefore |-> NoStatus]

(***************************************************************************)
(* The stand-alone services before any call: DeepSeekAdapter,              *)
(* DeepSeekService and the legacy routes, PubMedService.                   *)
(***************************************************************************)
\* No testConnection / generateText call of the adapter has been made.
NoAdapterCall ==
    [pc |-> "idle", op |-> "none", apiKey |-> Absent, requested |-> FALSE,
     outcome |-> "none"]

\* The requests of the legacy routes, and the PubMedService calls, of a run.
LegacyRequests == {"r1", "r2"}
PubMedCalls == {"q1", "q2"}

\* DeepSeekService as constructed: DEEPSEEK_API_KEY and DEEPSEEK_BASE_URL of
\* the environment.
EnvServiceConfig == [apiKey |-> "k0", baseUrl |-> "u0"]

\* A request of the legacy routes that has not arrived.
IdleRequest ==
    [pc |-> "idle", route |-> "none", applied |-> FALSE,
     originalConfig |-> [apiKey |-> Absent, baseUrl |-> Absent], status |-> 0]

\* A PubMedService call that has not been made.
IdlePubMedCall ==
    [pc |-> "idle", kind |-> "none", stage |-> "none", wakeAt |-> 0, attempt |-> 0,
     inner |-> 0, waitsFor |-> "none", outcome |-> "none"]

ServicesIdle ==
    /\ adapterCall = NoAdapterCall
    /\ serviceConfig = EnvServiceConfig
    /\ legacy = [r \in LegacyRequests |-> IdleRequest]
    /\ lastRequestTime = 0
    /\ pubmed = [q \in PubMedCalls |-> IdlePubMedCall]
    /\ requestLog = << >>

MgrInit ==
    /\ config \in ManagerConfigs
    /\ adapters = {}
    /\ modelStatuses = [m \in ModelNames |-> NoStatus]
    /\ cache = [k \in CacheKeys |-> NoEntry]
    /\ now = 0
    /\ calls = [c \in Calls |-> IdleCall]
    /\ test = NoTest
    /\ adapterConfig = [m \in ModelNames |-> NoConfig]
    /\ lastUpdate = NoUpdate
    /\ client = [m \in ModelNames |-> NoClient]
    /\ ScorerIdle
    /\ ServicesIdle

\* registerAdapter(name, adapter)
RegisterAdapter(name) ==
    /\ adapters' = adapters \cup {name}
    /\ modelStatuses' = [modelStatuses EXCEPT ![name] = Status(FALSE, FALSE, "undefined")]
    /\ UNCHANGED <<config, cache, now, calls>>
    /\ UNCHANGED <<test, adapterVars, scorerVars>>
    /\ UNCHANGED serviceVars

\* setModelStatus(modelName, status)
SetModelStatus(name, status) ==
    /\ modelStatuses' = [modelStatuses EXCEPT ![name] = status]
    /\ UNCHANGED <<config, adapters, cache, now, calls>>
    /\ UNCHANGED <<test, adapterVars, scorerVars>>
    /\ UNCHANGED serviceVars

\* clearCache()
ClearCache ==
    /\ cache' = [k \in CacheKeys |-> NoEntry]
    /\ UNCHANGED <<config, adapters, modelStatuses, now, calls>>
    /\ UNCHANGED <<test, adapterVars, scorerVars>>
    /\ UNCHANGED serviceVars

\* The clock advances.
Tick ==
    /\ now < MaxTime
    /\ now' = now + 1
    /\ UNCHANGED <<config, adapters, modelStatuses, cache, calls>>
    /\ UNCHANGED <<test, adapterVars, scorerVars>>
    /\ UNCHANGED serviceVars

\* One pass through the head of the retry loop with the attempt counter at n:
\* the loop ends (throw lastError), or the adapter is called; a call on the
\* undefined adapter of an unregistered name throws a TypeError inside the
\* try block, which the catch block handles like any failed attempt.
\* Mutant of LoopEnds: the loop runs one attempt too many.
LoopEnds_oneMore(n) == n > EffMaxRetries + 1

\* The loop condition attempt <= (this.config.maxRetries || 3) is false.
LoopEnds(n) == n > EffMaxRetries

RECURSIVE LoopFrom(_, _)
LoopFrom(r, n) ==
    IF LoopEnds(n)
    THEN [r EXCEPT !.pc = "done", !.attempt = n, !.outcome = "error", !.wakeAt = 0,
                   !.value = IF r.lastError = "null" THEN "ErrFailed" ELSE r.lastError]
    ELSE IF r.hasAdapter
    THEN [r EXCEPT !.pc = "await", !.attempt = n, !.wakeAt = 0, !.adapterCalls = @ + 1]
    ELSE LET r2 == [r EXCEPT !.lastError = "TypeError", !.attempt = n,
                             !.finalErr = "TypeError"]
         IN IF n < EffMaxRetries
            THEN [r2 EXCEPT !.pc = "delay", !.wakeAt = now + EffRetryDelay]
            ELSE LoopFrom(r2, n + 1)

\* The invocations of a run are numbered in the order they start.
Earlier(d, c) == d = "c1" /\ c = "c2"

\* History: the time since the most recent invocation with the same arguments
\* returned a result its adapter had just produced (-1: there was none).
SinceFresh(operation, prompt, preferredModel) ==
    LET same == {d \in Calls : /\ calls[d].pc = "done"
                                /\ calls[d].outcome = "result"
                                /\ ~calls[d].fromCache
                                /\ calls[d].op = operation
                                /\ calls[d].prompt = prompt
                                /\ calls[d].model = preferredModel}
    IN IF same = {} THEN -1
       ELSE now - (CHOOSE t \in {calls[d].doneAt : d \in same} :
                      \A d \in same : calls[d].doneAt <= t)

\* generateText / batchAnalyze up to the first await.
StartCall(c, operation, prompt, preferredModel) ==
    LET key    == generateCacheKey(operation, prompt)
        cached == CacheLookup(key)
        base   == [IdleCall EXCEPT !.op = operation, !.prompt = prompt,
                                   !.model = preferredModel,
                                   !.seenAge = IF cache[key].present
                                               THEN now - cache[key].timestamp ELSE -1,
                                   !.seenData = cache[key].data,
                                   !.availAtStart =
                                       (preferredModel # NoModel /\ isModelAvailable(preferredModel)),
                                   !.regAtStart = (preferredModel \in adapters),
                                   !.sinceFresh = SinceFresh(operation, prompt, preferredModel)]
    IN
    /\ calls[c].pc = "idle"
    /\ \A d \in Calls : Earlier(d, c) => calls[d].pc # "idle"
    /\ cache' = CacheAfterLookup(key)
    /\ calls' = [calls EXCEPT ![c] =
          IF cached.present
          THEN [base EXCEPT !.pc = "done", !.outcome = "result",
                            !.value = cached.data, !.fromCache = TRUE]
          ELSE IF preferredModel = NoModel
          THEN [base EXCEPT !.pc = "done", !.outcome = "error", !.value = "ErrNoModel"]
          ELSE IF ~isModelAvailable(preferredModel)
          THEN [base EXCEPT !.pc = "done", !.outcome = "error", !.value = "ErrUnavailable"]
          ELSE LoopFrom([base EXCEPT !.hasAdapter = (preferredModel \in adapters)], 1)]
    /\ UNCHANGED <<config, adapters, modelStatuses, now>>
    /\ UNCHANGED <<test, adapterVars, scorerVars>>
    /\ UNCHANGED serviceVars

\* generateText(prompt, options)
GenerateText(c, prompt, preferredModel) ==
    StartCall(c, "generateText", prompt, preferredModel)

\* batchAnalyze(items, options)
BatchAnalyze(c, items, preferredModel) ==
    StartCall(c, "batchAnalyze", items, preferredModel)

\* The awaited adapter call resolves: the result is cached and returned.
AdapterResolves(c) ==
    LET r      == calls[c]
        result == r.model    \* a GenerationResult, named after its producer
    IN
    /\ r.pc = "await"
    /\ cache' = saveToCache(cache, generateCacheKey(r.op, r.prompt), result)
    /\ calls' = [calls EXCEPT ![c] =
          [r EXCEPT !.pc = "done", !.outcome = "result", !.value = result,
                    !.doneAt = now]]
    /\ UNCHANGED <<config, adapters, modelStatuses, now>>
    /\ UNCHANGED <<test, adapterVars, scorerVars>>
    /\ UNCHANGED serviceVars

\* What an adapter rejects an attempt with: the error of a failed request,
\* or the configuration error it throws before any request when it has no
\* API key or no client.
ErrorKinds == {"request", "configuration"}

\* The awaited adapter call rejects: the error is kept whatever its kind, and
\* the loop either waits retryDelay or goes on (to its end, on the last
\* attempt).
AdapterRejects(c, kind) ==
    LET r  == calls[c]
        err == AdapterError(r.attempt)
        r2 == [r EXCEPT !.lastError = err, !.finalErr = err,
                        !.configError = @ \/ kind = "configuration"]
    IN
    /\ r.pc = "await"
    /\ calls' = [calls EXCEPT ![c] =
          IF r.attempt < EffMaxRetries
          THEN [r2 EXCEPT !.pc = "delay", !.wakeAt = now + EffRetryDelay]
          ELSE LoopFrom(r2, r.attempt + 1)]
    /\ UNCHANGED <<config, adapters, modelStatuses, cache, now>>
    /\ UNCHANGED <<test, adapterVars, scorerVars>>
    /\ UNCHANGED serviceVars

\* The setTimeout of the retry delay fires: the next attempt starts.
DelayElapsed(c) ==
    /\ calls[c].pc = "delay"
    /\ now >= calls[c].wakeAt
    /\ calls' = [calls EXCEPT ![c] = LoopFrom(calls[c], calls[c].attempt + 1)]
    /\ UNCHANGED <<config, adapters, modelStatuses, cache, now>>
    /\ UNCHANGED <<test, adapterVars, scorerVars>>
    /\ UNCHANGED serviceVars

MgrNext ==
    \/ \E name \in ModelNames : RegisterAdapter(name)
    \/ \E name \in ModelNames, s \in StatusInputs : SetModelStatus(name, s)
    \/ ClearCache
    \/ Tick
    \/ \E c \in Calls, p \in Prompts, m \in ModelNames \cup {NoModel} : GenerateText(c, p, m)
    \/ \E c \in Calls, p \in Prompts, m \in ModelNames \cup {NoModel} : BatchAnalyze(c, p, m)
    \/ \E c \in Calls : AdapterResolves(c)
    \/ \E c \in Calls, kind \in ErrorKinds : AdapterRejects(c, kind)
    \/ \E c \in Calls : DelayElapsed(c)

SpecManager == MgrInit /\ [][MgrNext]_vars

(***************************************************************************)
(* Adapter configuration: BaseAdapter.updateConfig / getConfig, reached    *)
(* through AIServiceManager.updateModelConfig and the /generate route.     *)
(***************************************************************************)
\* The partials a caller hands to updateConfig directly: a key can be left
\* out, be present with the value undefined, or carry a value; the last one
\* sets the API key to the empty string.
Partials ==
    {p \in [Fields -> {Absent, Undefined, "k1", "u1", "m1"}] :
        /\ p["apiKey"]  \in {Absent, "k1"}
        /\ p["baseUrl"] \in {Absent, Undefined, "u1"}
        /\ p["model"]   \in {Absent, Undefined, "m1"}}
    \cup {[f \in Fields |-> IF f = "apiKey" THEN "" ELSE Absent]}

\* The entries a /generate request can carry in modelConfigs for one model:
\* req.body is parsed JSON, so a field the client left out reads undefined.
RouteEntries ==
    {[enabled |-> FALSE, apiKey |-> "k1", baseUrl |-> "u1", model |-> "m1"],
     [enabled |-> TRUE,  apiKey |-> "",   baseUrl |-> "u1", model |-> "m1"]}
    \cup
    {[enabled |-> TRUE, apiKey |-> "k1", baseUrl |-> b, model |-> m] :
        b \in {Undefined, "u1"}, m \in {Undefined, "m1"}}

\* No entry for a model in the request.
NoRouteEntry == [enabled |-> FALSE, apiKey |-> Undefined, baseUrl |-> Undefined,
                 model |-> Undefined]

\* config.apiKey && config.apiKey.trim()
Truthy(v) == v \notin {Undefined, Absent, ""}

\* Mutant of Spread: a key holding undefined is skipped like a missing key.
Spread_skipUndefined(target, source) ==
    [f \in Fields |-> IF source[f] \in {Absent, Undefined} THEN target[f] ELSE source[f]]

\* { ...target, ...source }: every own key of source, also one that holds
\* undefined, replaces the key of target.
Spread(target, source) ==
    [f \in Fields |-> IF source[f] = Absent THEN target[f] ELSE source[f]]

\* BaseAdapter.updateConfig(config): the adapter's config afterwards.
updateConfig(current, partial) == Spread(current, partial)

\* BaseAdapter.getConfig(): a copy of the adapter's config.
getConfig(name) == Spread(NoConfig, adapterConfig[name])

\* The object literal { apiKey, baseUrl, model } the /generate route builds:
\* all three keys are present, whatever the entry carried.
RoutePartial(entry) ==
    [f \in Fields |-> entry[f]]

\* The adapters that hold a lazily built vendor client (ClaudeAdapter; the
\* OpenAI and Gemini adapters build theirs under the same condition).
HoldsClient == {"claude"}

\* initializeClient(): a client is built from the config when it has an API
\* key; otherwise this.client is left as it is.
initializeClient(name, current, cfg) ==
    IF name \in HoldsClient /\ Truthy(cfg["apiKey"])
    THEN [built |-> TRUE, apiKey |-> cfg["apiKey"], baseUrl |-> cfg["baseUrl"]]
    ELSE current

\* The state after the module of the routes has been loaded: the adapters
\* are registered with their default configs and deepseek is marked available.
AdapterInit ==
    /\ config = [enableCaching |-> TRUE, cacheTimeout |-> DefaultCacheTimeout,
                 maxRetries |-> DefaultMaxRetries, retryDelay |-> DefaultRetryDelay]
    /\ adapters = ModelNames
    /\ modelStatuses = [m \in ModelNames |->
          Status(m = "deepseek", FALSE, "undefined")]
    /\ cache = [k \in CacheKeys |-> NoEntry]
    /\ now = 0
    /\ calls = [c \in Calls |-> IdleCall]
    /\ test = NoTest
    /\ \E envKey \in {"", "k0"} :
          adapterConfig = [m \in ModelNames |->
              IF m = "deepseek"
              THEN [f \in Fields |-> IF f = "apiKey" THEN envKey
                                     ELSE IF f = "baseUrl" THEN "u0" ELSE "m0"]
              ELSE [f \in Fields |-> ""]]
    /\ lastUpdate = NoUpdate
    /\ client = [m \in ModelNames |-> NoClient]
    /\ ScorerIdle
    /\ ServicesIdle

\* AIServiceManager.updateModelConfig(modelName, config), called directly.
UpdateModelConfig(name, partial) ==
    /\ name \in adapters
    /\ adapterConfig' = [adapterConfig EXCEPT ![name] = updateConfig(@, partial)]
    /\ client' = [client EXCEPT ![name] =
                      initializeClient(name, @, updateConfig(adapterConfig[name], partial))]
    /\ lastUpdate' = [name |-> name, before |-> getConfig(name), partial |-> partial,
                      viaRoute |-> FALSE]
    /\ UNCHANGED <<mgrVars, scorerVars>>
    /\ UNCHANGED serviceVars

\* The modelConfigs loop of POST /generate, for a request that carries at
\* most one entry per model; an entry is applied when it is enabled and has
\* a non-blank apiKey, and the model is then marked available.
ApplyModelConfigs(entries) ==
    LET applied == {m \in ModelNames : entries[m].enabled /\ Truthy(entries[m].apiKey)}
        last    == CHOOSE m \in applied : \A o \in applied : o = m \/ o = "deepseek"
    IN
    /\ applied # {}
    /\ adapterConfig' = [m \in ModelNames |->
          IF m \in applied /\ m \in adapters
          THEN updateConfig(adapterConfig[m], RoutePartial(entries[m]))
          ELSE adapterConfig[m]]
    /\ client' = [m \in ModelNames |->
          IF m \in applied /\ m \in adapters
          THEN initializeClient(m, client[m],
                                updateConfig(adapterConfig[m], RoutePartial(entries[m])))
          ELSE client[m]]
    /\ modelStatuses' = [m \in ModelNames |->
          IF m \in applied THEN Status(TRUE, FALSE, "undefined") ELSE modelStatuses[m]]
    /\ lastUpdate' = [name |-> last, before |-> getConfig(last),
                      partial |-> RoutePartial(entries[last]), viaRoute |-> TRUE]
    /\ UNCHANGED <<config, adapters, cache, now, calls, test, scorerVars>>
    /\ UNCHANGED serviceVars

AdapterNext ==
    \/ \E name \in ModelNames, partial \in Partials : UpdateModelConfig(name, partial)
    \/ \E entries \in [ModelNames -> RouteEntries \cup {NoRouteEntry}] :
          ApplyModelConfigs(entries)

SpecAdapter == AdapterInit /\ [][AdapterNext]_vars

(***************************************************************************)
(* The registry and the status map: testModelConnection next to the other  *)
(* operations of the manager.                                              *)
(***************************************************************************)
\* What adapter.testConnection(config) resolves to: the adapters return
\* {success: true, message, modelInfo} or {success: false, error}.
ConnectionResults ==
    {[success |-> TRUE, error |-> "undefined"],
     [success |-> FALSE, error |-> "ErrConnection"]}

\* Mutant of TestedStatus: the latency is stored whatever the outcome.
TestedStatus_alwaysLatency(result) == Status(result.success, TRUE, result.error)

\* The ModelStatus testModelConnection stores when testConnection resolves:
\* latency: result.success ? latency : undefined.
TestedStatus(result) == Status(result.success, result.success, result.error)

\* testModelConnection(modelName, config) up to the await; for a name without
\* an adapter it returns {success: false, error} at once.
TestModelConnection(name) ==
    /\ test.pc # "await"
    /\ test' = IF name \in adapters
               THEN [NoTest EXCEPT !.pc = "await", !.name = name, !.registered = TRUE,
                                   !.startedAt = now]
               ELSE [NoTest EXCEPT !.pc = "done", !.name = name,
                                   !.error = "ErrUnregistered"]
    /\ UNCHANGED <<config, adapters, modelStatuses, cache, now, calls>>
    /\ UNCHANGED <<adapterVars, scorerVars>>
    /\ UNCHANGED serviceVars

\* The awaited testConnection resolves: the status is overwritten and
\* {...result, latency} is returned.
TestResolves(result) ==
    /\ test.pc = "await"
    /\ modelStatuses' = [modelStatuses EXCEPT ![test.name] = TestedStatus(result)]
    /\ test' = [test EXCEPT !.pc = "done", !.success = result.success,
                            !.hasLatency = TRUE, !.error = result.error]
    /\ UNCHANGED <<config, adapters, cache, now, calls>>
    /\ UNCHANGED <<adapterVars, scorerVars>>
    /\ UNCHANGED serviceVars

\* The awaited testConnection throws: the catch block stores an unavailable
\* status with the message and returns {success: false, error}.
TestThrows ==
    /\ test.pc = "await"
    /\ modelStatuses' = [modelStatuses EXCEPT ![test.name] = Status(FALSE, FALSE, "ErrThrown")]
    /\ test' = [test EXCEPT !.pc = "done", !.success = FALSE, !.error = "ErrThrown"]
    /\ UNCHANGED <<config, adapters, cache, now, calls>>
    /\ UNCHANGED <<adapterVars, scorerVars>>
    /\ UNCHANGED serviceVars

\* A manager constructed with one attempt per call (no retry delay is ever
\* waited); no adapter is registered yet.
RegistryInit ==
    /\ config = [enableCaching |-> TRUE, cacheTimeout |-> 1, maxRetries |-> 1,
                 retryDelay |-> 1]
    /\ adapters = {}
    /\ modelStatuses = [m \in ModelNames |-> NoStatus]
    /\ cache = [k \in CacheKeys |-> NoEntry]
    /\ now = 0
    /\ calls = [c \in Calls |-> IdleCall]
    /\ test = NoTest
    /\ adapterConfig = [m \in ModelNames |-> [f \in Fields |-> ""]]
    /\ lastUpdate = NoUpdate
    /\ client = [m \in ModelNames |-> NoClient]
    /\ ScorerIdle
    /\ ServicesIdle

\* The config a caller of updateModelConfig passes here.
KeyOnly == [f \in Fields |-> IF f = "apiKey" THEN "k1" ELSE Absent]

RegistryNext ==
    \/ \E name \in ModelNames : RegisterAdapter(name)
    \/ \E name \in ModelNames, s \in StatusInputs : SetModelStatus(name, s)
    \/ \E name \in ModelNames : TestModelConnection(name)
    \/ \E result \in ConnectionResults : TestResolves(result)
    \/ TestThrows
    \/ \E name \in ModelNames : UpdateModelConfig(name, KeyOnly)
    \/ ClearCache
    \/ \E p \in Prompts, m \in ModelNames : GenerateText("c1", p, m)
    \/ \E p \in Prompts, m \in ModelNames : BatchAnalyze("c1", p, m)
    \/ AdapterResolves("c1")
    \/ \E kind \in ErrorKinds : AdapterRejects("c1", kind)

SpecRegistry == RegistryInit /\ [][RegistryNext]_vars

(***************************************************************************)
(* POST /generate as a whole: the modelConfigs loop and the generateText   *)
(* call it awaits, for requests that overlap in time.                      *)
(***************************************************************************)
\* The modelConfigs entry a request carries for its preferredModel: none, or
\* an enabled entry with the API key of the client that sent the request.
RequestEntries ==
    {NoRouteEntry}
    \cup {[enabled |-> TRUE, apiKey |-> k, baseUrl |-> "u1", model |-> "m1"] :
             k \in {"k1", "k2"}}

\* The manager the routes module constructs, on a clock that counts seconds:
\* three attempts, one second between them, entries cached for 300 seconds.
\* The adapters are registered and deepseek is marked available.
RouteInit ==
    /\ config = [enableCaching |-> TRUE, cacheTimeout |-> 300, maxRetries |-> DefaultMaxRetries,
                 retryDelay |-> 1]
    /\ adapters = ModelNames
    /\ modelStatuses = [m \in ModelNames |-> Status(m = "deepseek", FALSE, "undefined")]
    /\ cache = [k \in CacheKeys |-> NoEntry]
    /\ now = 0
    /\ calls = [c \in Calls |-> IdleCall]
    /\ test = NoTest
    /\ adapterConfig = [m \in ModelNames |->
          IF m = "deepseek"
          THEN [f \in Fields |-> IF f = "apiKey" THEN "k0"
                                 ELSE IF f = "baseUrl" THEN "u0" ELSE "m0"]
          ELSE [f \in Fields |-> ""]]
    /\ lastUpdate = NoUpdate
    /\ client = [m \in ModelNames |-> NoClient]
    /\ ScorerIdle
    /\ ServicesIdle

\* The handler of POST /generate up to its await: an enabled entry with an API
\* key is written into the adapter and the model is marked available; then
\* aiManager.generateText runs up to its first await.
RouteGenerate(c, prompt, preferredModel, entry) ==
    LET applied   == entry.enabled /\ Truthy(entry.apiKey)
        merged    == updateConfig(adapterConfig[preferredModel], RoutePartial(entry))
        key       == generateCacheKey("generateText", prompt)
        cached    == CacheLookup(key)
        available == applied \/ isModelAvailable(preferredModel)
        base      == [IdleCall EXCEPT !.op = "generateText", !.prompt = prompt,
                                      !.model = preferredModel,
                                      !.seenAge = IF cache[key].present
                                                  THEN now - cache[key].timestamp ELSE -1,
                                      !.seenData = cache[key].data,
                                      !.availAtStart = available,
                                      !.regAtStart = (preferredModel \in adapters),
                                      !.sinceFresh = SinceFresh("generateText", prompt,
                                                                preferredModel),
                                      !.suppliedKey = IF applied THEN entry.apiKey ELSE Absent,
                                      !.configBefore = getConfig(preferredModel),
                                      !.statusBefore = modelStatuses[preferredModel]]
    IN
    /\ calls[c].pc = "idle"
    /\ \A d \in Calls : Earlier(d, c) => calls[d].pc # "idle"
    /\ adapterConfig' = IF applied /\ preferredModel \in adapters
                        THEN [adapterConfig EXCEPT ![preferredModel] = merged]
                        ELSE adapterConfig
    /\ client' = IF applied /\ preferredModel \in adapters
                 THEN [client EXCEPT ![preferredModel] =
                          initializeClient(preferredModel, @, merged)]
                 ELSE client
    /\ modelStatuses' = IF applied
                        THEN [modelStatuses EXCEPT ![preferredModel] =
                                 Status(TRUE, FALSE, "undefined")]
                        ELSE modelStatuses
    /\ lastUpdate' = IF applied
                     THEN [name |-> preferredModel, before |-> getConfig(preferredModel),
                           partial |-> RoutePartial(entry), viaRoute |-> TRUE]
                     ELSE lastUpdate
    /\ cache' = CacheAfterLookup(key)
    /\ calls' = [calls EXCEPT ![c] =
          IF cached.present
          THEN [base EXCEPT !.pc = "done", !.outcome = "result",
                            !.value = cached.data, !.fromCache = TRUE]
          ELSE IF ~available
          THEN [base EXCEPT !.pc = "done", !.outcome = "error", !.value = "ErrUnavailable"]
          ELSE LoopFrom([base EXCEPT !.hasAdapter = (preferredModel \in adapters)], 1)]
    /\ UNCHANGED <<config, adapters, now, test, scorerVars>>
    /\ UNCHANGED serviceVars

RouteNext ==
    \/ \E c \in Calls, p \in Prompts, e \in RequestEntries : RouteGenerate(c, p, "deepseek", e)
    \/ \E c \in Calls : AdapterResolves(c)
    \/ \E c \in Calls, kind \in ErrorKinds : AdapterRejects(c, kind)
    \/ \E c \in Calls : DelayElapsed(c)
    \/ Tick

SpecRoute == RouteInit /\ [][RouteNext]_vars

(***************************************************************************)
(* Properties of the adapter configuration (checked under SpecAdapter).    *)
(***************************************************************************)
\* C5: updateConfig(partial) followed by getConfig() preserves every field
\* the partial does not overwrite with a value, and returns the value for
\* every field it does overwrite; this holds also for the partial the
\* /generate route builds from an entry that left baseUrl or model unset.
C5_UpdatePreservesUnsetFields ==
    lastUpdate.name # "none" =>
        \A f \in Fields :
            getConfig(lastUpdate.name)[f] =
                IF lastUpdate.partial[f] \in {Absent, Undefined}
                THEN lastUpdate.before[f]
                ELSE lastUpdate.partial[f]

(***************************************************************************)
(* Properties of the AI service manager (checked under SpecManager).       *)
(***************************************************************************)
Started(c) == calls[c].pc # "idle"
Finished(c) == calls[c].pc = "done"

\* C1: a generateText call made without preferredModel always fails with an
\* error, whatever the registry, the statuses and the cache hold: it never
\* returns a GenerationResult.
C1_NoModelAlwaysFails ==
    \A c \in Calls :
        (Finished(c) /\ calls[c].op = "generateText" /\ calls[c].model = NoModel)
            => calls[c].outcome = "error"

\* C2: generateText and batchAnalyze fail whenever preferredModel names a
\* model that is unregistered or whose stored status is not available at the
\* time of the call: no result, fresh or cached, is returned.
C2_UnavailableModelFails ==
    \A c \in Calls :
        (Finished(c) /\ calls[c].model # NoModel
                     /\ (~calls[c].regAtStart \/ ~calls[c].availAtStart))
            => calls[c].outcome = "error"

\* C3 as stated: for any configured maxRetries one invocation calls the
\* adapter at most maxRetries times.
C3_AtMostConfiguredRetries ==
    \A c \in Calls : calls[c].adapterCalls <= config.maxRetries

\* The attempt budget as the source computes it, spelled out.
AttemptBudget == IF config.maxRetries = 0 THEN 3 ELSE config.maxRetries

\* C3 (amended): one invocation calls the adapter at most maxRetries times,
\* or 3 times when maxRetries is configured as 0; when every attempt has
\* failed the call fails with the error of the last attempt, having made
\* exactly that many attempts and not one more.
C3_RetryBudget ==
    \A c \in Calls :
        /\ calls[c].adapterCalls <= AttemptBudget
        /\ (Finished(c) /\ calls[c].outcome = "error" /\ calls[c].adapterCalls > 0)
              => (/\ calls[c].adapterCalls = AttemptBudget
                  /\ calls[c].value = AdapterError(AttemptBudget)
                  /\ calls[c].value = calls[c].finalErr)
        /\ (Finished(c) /\ calls[c].outcome = "result" /\ ~calls[c].fromCache)
              => calls[c].adapterCalls \in 1..AttemptBudget

\* Witness of C3: an invocation whose two configured attempts both failed.
C3_Witness ==
    \E c \in Calls :
        /\ Finished(c) /\ calls[c].outcome = "error"
        /\ config.maxRetries = 2 /\ calls[c].adapterCalls = 2
        /\ calls[c].value = "e2"

TimeToLive == IF config.cacheTimeout = 0 THEN 300000 ELSE config.cacheTimeout

ScorerInit ==
    /\ config = [enableCaching |-> TRUE, cacheTimeout |-> DefaultCacheTimeout,
                 maxRetries |-> DefaultMaxRetries, retryDelay |-> DefaultRetryDelay]
    /\ adapters = {}
    /\ modelStatuses = [m \in ModelNames |-> NoStatus]
    /\ cache = [k \in CacheKeys |-> NoEntry]
    /\ now = 0
    /\ calls = [c \in Calls |-> IdleCall]
    /\ test = NoTest
    /\ adapterConfig = [m \in ModelNames |-> NoConfig]
    /\ lastUpdate = NoUpdate
    /\ client = [m \in ModelNames |-> NoClient]
    /\ ScorerIdle
    /\ ServicesIdle

\* The call before this one had the same documents and options, and the
\* stopword set has not changed since.
Repeats(documents, options) ==
    /\ lastCall.called
    /\ lastCall.documents = documents
    /\ lastCall.options = options
    /\ ~lastCall.stopWordsChanged

\* What is recorded of a call: its arguments, the list it returned, where the
\* list came from, and the list of the call before when this call repeats it.
CallRecord(documents, options, fromCache, computed, out) ==
    [called |-> TRUE, documents |-> documents, options |-> options,
     result |-> out.result, fromCache |-> fromCache, computed |-> computed,
     filteredCount |-> out.filteredCount, idfMap |-> out.idfMap,
     processedDocs |-> out.processedDocs,
     repeated |-> Repeats(documents, options),
     previous |-> IF Repeats(documents, options) THEN lastCall.result ELSE << >>,
     stopWordsChanged |-> FALSE]

\* extractKeywords(documents, options)
ExtractKeywords(documents, options) ==
    /\ callCount < MaxCalls
    /\ callCount' = callCount + 1
    /\ LET cacheKey == CacheKeyTable[documents, options]
           computed == ComputeTable[documents, options, stopWords]
           nothing  == [result |-> << >>, filteredCount |-> 0, idfMap |-> << >>,
                        processedDocs |-> << >>]
           cached   == [result |-> CacheGet(resultCache, cacheKey).result,
                        filteredCount |-> CacheGet(resultCache, cacheKey).filteredCount,
                        idfMap |-> << >>, processedDocs |-> << >>]
       IN IF Len(documents) = 0
          THEN /\ lastCall' = CallRecord(documents, options, FALSE, FALSE, nothing)
               /\ UNCHANGED resultCache
          ELSE IF CacheHas(resultCache, cacheKey)
          THEN /\ lastCall' = CallRecord(documents, options, TRUE, FALSE, cached)
               /\ UNCHANGED resultCache
          ELSE /\ lastCall' = CallRecord(documents, options, FALSE, TRUE, computed)
               /\ resultCache' = setCacheResult(resultCache, cacheKey, computed)
    /\ UNCHANGED <<stopWords, mgrVars, adapterVars>>
    /\ UNCHANGED serviceVars

\* The set after addStopWords(words).
RECURSIVE AddAll(_, _, _)
AddAll(sw, words, i) ==
    IF i > Len(words) THEN sw ELSE AddAll(sw \cup {toLowerCase(words[i])}, words, i + 1)

\* The set after removeStopWords(words).
RECURSIVE DeleteAll(_, _, _)
DeleteAll(sw, words, i) ==
    IF i > Len(words) THEN sw ELSE DeleteAll(sw \ {toLowerCase(words[i])}, words, i + 1)

\* addStopWords(words)
AddStopWords(words) ==
    /\ stopWords' = AddAll(stopWords, words, 1)
    /\ lastCall' = [lastCall EXCEPT !.stopWordsChanged = @ \/ stopWords' # stopWords]
    /\ UNCHANGED <<resultCache, callCount, mgrVars, adapterVars>>
    /\ UNCHANGED serviceVars

\* removeStopWords(words)
RemoveStopWords(words) ==
    /\ stopWords' = DeleteAll(stopWords, words, 1)
    /\ lastCall' = [lastCall EXCEPT !.stopWordsChanged = @ \/ stopWords' # stopWords]
    /\ UNCHANGED <<resultCache, callCount, mgrVars, adapterVars>>
    /\ UNCHANGED serviceVars

\* clearCache()
TfidfClearCache ==
    /\ resultCache' = << >>
    /\ UNCHANGED <<stopWords, lastCall, callCount, mgrVars, adapterVars>>
    /\ UNCHANGED serviceVars

ScorerNext ==
    \/ \E documents \in Corpora, options \in OptionSets : ExtractKeywords(documents, options)
    \/ \E words \in StopWordInputs : AddStopWords(words)
    \/ \E words \in StopWordInputs : RemoveStopWords(words)
    \/ TfidfClearCache

SpecScorer == ScorerInit /\ [][ScorerNext]_vars

\* The cache after cacheMaxSize - 1 earlier extractKeywords calls, the i-th
\* of them on one document of the single code unit 100 + i ('e', 'f', ...)
\* without options: hashDocuments gives the code unit itself, and no term
\* of a single document passes the default document-frequency filter.
EarlierEntries ==
    [i \in 1..(cacheMaxSize - 1) |->
        CacheEntry(<<<<0, 100 + i>>, << >>>>,
                   [result |-> << >>, filteredCount |-> 0,
                    documents |-> <<<<ToString(100 + i)>>>>,
                    options |-> Options(Unset, Unset, Unset, Unset)])]

\* The service with one place left in its cache.
NearlyFullInit ==
    /\ config = [enableCaching |-> TRUE, cacheTimeout |-> DefaultCacheTimeout,
                 maxRetries |-> DefaultMaxRetries, retryDelay |-> DefaultRetryDelay]
    /\ adapters = {}
    /\ modelStatuses = [m \in ModelNames |-> NoStatus]
    /\ cache = [k \in CacheKeys |-> NoEntry]
    /\ now = 0
    /\ calls = [c \in Calls |-> IdleCall]
    /\ test = NoTest
    /\ adapterConfig = [m \in ModelNames |-> NoConfig]
    /\ lastUpdate = NoUpdate
    /\ client = [m \in ModelNames |-> NoClient]
    /\ stopWords = initializeStopWords
    /\ resultCache = EarlierEntries
    /\ lastCall = NoCall
    /\ callCount = 0
    /\ ServicesIdle

\* The calls that read or write the cache.
FullCacheNext ==
    \/ \E documents \in Corpora, options \in OptionSets : ExtractKeywords(documents, options)
    \/ TfidfClearCache

SpecFullCache == NearlyFullInit /\ [][FullCacheNext]_vars

(***************************************************************************)
(* Properties of the TF-IDF scorer (checked under SpecScorer).             *)
(***************************************************************************)
\* The entries of a returned list.
Returned == {lastCall.result[i] : i \in 1..Len(lastCall.result)}

\* C6: two extractKeywords calls with the same documents and the same
\* options, with no stopword change in between, return identical lists
\* (a list served from the cache equals the list computed afresh).
C6_RepeatedCallsAgree ==
    lastCall.repeated => lastCall.result = lastCall.previous

\* C7: every returned KeywordResult has 0 <= df <= 1,
\* 1 <= documentCount <= documents.length, df = documentCount /
\* documents.length and frequency >= documentCount.
C7_ResultBounds ==
    \A r \in Returned :
        /\ r.df[1] >= 0 /\ r.df[1] <= r.df[2]
        /\ r.documentCount >= 1
        /\ r.documentCount <= Len(lastCall.documents)
        /\ r.df = Frac(r.documentCount, Len(lastCall.documents))
        /\ r.frequency >= r.documentCount

\* C8 as stated: every returned KeywordResult has idf >= 0, whatever the
\* options.
C8_IdfNeverNegative ==
    \A r \in Returned : LogSign(r.idf) >= 0

\* C8: every KeywordResult returned by a call whose maxDocumentFrequency
\* (0.8 when unset or 0) is below 1 has idf >= 0.
C8_IdfNonNegativeBelowFullFrequency ==
    FracLess(OrDefault(lastCall.options.maxDocumentFrequency, <<4, 5>>), <<1, 1>>)
        => \A r \in Returned : LogSign(r.idf) >= 0

\* A call under maxDocumentFrequency < 1 computed a term with negative idf
\* and returned a non-empty list.
C8_Witness ==
    /\ lastCall.computed
    /\ FracLess(OrDefault(lastCall.options.maxDocumentFrequency, <<4, 5>>), <<1, 1>>)
    /\ lastCall.result # << >>
    /\ \E v \in 1..Len(lastCall.idfMap) : LogSign(lastCall.idfMap[v].idf) < 0

\* The number of processed documents of the last computation containing word.
DocumentsContaining(word) ==
    Cardinality({d \in 1..Len(lastCall.processedDocs) :
                    Includes(lastCall.processedDocs[d], word)})

\* C9: in a computation over N documents a term in all N documents gets
\* idf = ln(N / (N + 1)) < 0, returned as it is (not clamped to 0); a term in
\* N - 1 documents gets idf = 0; idf > 0 exactly for a term in fewer than
\* N - 1 documents.
C9_IdfBySpread ==
    lastCall.computed =>
        LET N == Len(lastCall.documents)
        IN /\ \A v \in 1..Len(lastCall.idfMap) :
                LET e == lastCall.idfMap[v]
                    k == DocumentsContaining(e.word)
                IN /\ e.df = k
                   /\ (k = N) => (e.idf = Frac(N, N + 1) /\ LogSign(e.idf) < 0)
                   /\ (k = N - 1) => (e.idf = <<1, 1>> /\ LogSign(e.idf) = 0)
                   /\ (LogSign(e.idf) > 0) <=> (k < N - 1)
           /\ \A r \in Returned :
                \E v \in 1..Len(lastCall.idfMap) :
                    /\ lastCall.idfMap[v].word = r.word
                    /\ lastCall.idfMap[v].idf = r.idf

\* A computation over 3 documents with a term in 3, in 2 and in 1 of them,
\* that returned the term with the negative idf.
C9_Witness ==
    /\ lastCall.computed
    /\ Len(lastCall.documents) = 3
    /\ \A k \in 1..3 : \E v \in 1..Len(lastCall.idfMap) : lastCall.idfMap[v].df = k
    /\ \E r \in Returned : r.documentCount = 3 /\ r.idf = <<3, 4>>

\* C10 as stated: the length of a computed list is
\* max(1, floor(filteredCount * topPercentage)) when filteredCount > 0
\* (topPercentage as given, 0.35 when not given), and 0 only when
\* filteredCount = 0.
C10_TruncationAsStated ==
    lastCall.computed =>
        LET tp == IF lastCall.options.topPercentage = Unset THEN <<7, 20>>
                  ELSE lastCall.options.topPercentage
            fc == lastCall.filteredCount
        IN /\ (fc > 0) => (Len(lastCall.result) = Max(1, Floor(<<fc * tp[1], tp[2]>>)))
           /\ (Len(lastCall.result) = 0) => (fc = 0)

\* C10: the length of a returned list is
\* min(filteredCount, max(1, floor(filteredCount * (topPercentage || 0.35))))
\* when filteredCount > 0 and 0 exactly when filteredCount = 0, filteredCount
\* being the number of terms that survived the filters in the computation
\* that produced the list.
C10_Truncation ==
    lastCall.called =>
        LET tp == OrDefault(lastCall.options.topPercentage, <<7, 20>>)
            fc == lastCall.filteredCount
        IN /\ (fc > 0) => (Len(lastCall.result)
                              = Min(fc, Max(1, Floor(<<fc * tp[1], tp[2]>>))))
           /\ (Len(lastCall.result) = 0) <=> (fc = 0)

\* A computation with six surviving terms and topPercentage 0 kept two of
\* them.
C10_Witness ==
    /\ lastCall.computed
    /\ lastCall.options.topPercentage = <<0, 1>>
    /\ lastCall.filteredCount = 6
    /\ Len(lastCall.result) = 2

\* C11: addStopWords is idempotent and folds case: adding a word, in either
\* letter case, once or twice, leaves the set with its lower-case form added,
\* and adding the same words again changes nothing; removeStopWords of a word
\* that is not in the set leaves the set unchanged (and is always possible).
C11_StopWordsIdempotent ==
    [][/\ \A words \in StopWordInputs :
              AddStopWords(words) =>
                  (/\ stopWords' = stopWords \cup {Word.foo}
                   /\ \A again \in StopWordInputs : AddAll(stopWords', again, 1) = stopWords')
       /\ \A words \in StopWordInputs :
              (Word.foo \notin stopWords) =>
                  (/\ ENABLED RemoveStopWords(words)
                   /\ RemoveStopWords(words) => (stopWords' = stopWords))]_vars

\* addStopWords(['Foo']) has acted: the set holds 'foo' and not 'Foo'.
C11_Witness ==
    /\ Word.foo \in stopWords
    /\ Word.Foo \notin stopWords

\* C12: a token that is a single CJK ideograph is exempt from the minimum
\* length: under the default minWordLength of 3, every such token of a
\* document that is not a stopword survives filterWords.
C12_SingleCJKSurvivesFilter ==
    (/\ lastCall.computed
     /\ ~lastCall.stopWordsChanged
     /\ OrDefault(lastCall.options.minWordLength, <<DefaultMinWordLength, 1>>)
            = <<DefaultMinWordLength, 1>>)
        => \A d \in 1..Len(lastCall.documents) :
               LET tokens == tokenize(lastCall.documents[d])
               IN \A t \in 1..Len(tokens) :
                      (/\ Len(tokens[t]) = 1
                       /\ IsCJK(tokens[t][1])
                       /\ tokens[t] \notin stopWords)
                          => Includes(lastCall.processedDocs[d], tokens[t])

\* C13: every extraction consults the current stopword set: a call made
\* after addStopWords([w]) returns no KeywordResult whose word is w, also
\* when the same documents and options were extracted before w was added.
C13_NoStopWordReturned ==
    (lastCall.called /\ ~lastCall.stopWordsChanged)
        => \A r \in Returned : r.word \notin stopWords

(***************************************************************************)
(* Properties of the retry loop and the status map.                        *)
(***************************************************************************)
\* C14: a configuration error raised by the adapter's generateText is
\* surfaced to the caller of the manager at once: the invocation is finished
\* with that error, no retry delay is waited and no further attempt is made.
C14_ConfigErrorNotRetried ==
    \A c \in Calls :
        calls[c].configError =>
            (/\ Finished(c)
             /\ calls[c].outcome = "error"
             /\ calls[c].value = AdapterError(calls[c].adapterCalls))

\* C15: a generateText / batchAnalyze call whose preferredModel is absent
\* from the adapter registry, and which is not served from the cache, fails at
\* once with the unavailable-model error: no attempt is made and no retry
\* delay is waited, also when setModelStatus has stored an available status
\* under the unregistered name.
C15_UnregisteredFailsAtOnce ==
    \A c \in Calls :
        (Started(c) /\ calls[c].model # NoModel /\ ~calls[c].regAtStart
                    /\ ~calls[c].fromCache)
            => (/\ Finished(c)
                /\ calls[c].outcome = "error"
                /\ calls[c].value = "ErrUnavailable"
                /\ calls[c].attempt = 0)

\* C16: the status of a model is updated after a generation attempt: when a
\* generateText or batchAnalyze call on a registered, available model has
\* exhausted its retries, the stored status of the model is unavailable and
\* records the error.
C16_ExhaustionMarksUnavailable ==
    [][\A c \in Calls :
          (/\ calls[c].pc # "done"
           /\ calls'[c].pc = "done"
           /\ calls'[c].outcome = "error"
           /\ calls'[c].regAtStart
           /\ calls'[c].adapterCalls > 0)
              => (/\ ~modelStatuses'[calls'[c].model].isAvailable
                  /\ modelStatuses'[calls'[c].model].error # "undefined")]_vars

(***************************************************************************)
(* Properties of the vendor client (checked under SpecAdapter).            *)
(***************************************************************************)
\* C20: after any sequence of updateConfig calls, the client an adapter
\* holds for its next generateText was built from the adapter's current
\* apiKey and baseUrl (the model is read from the config at every call): a
\* client built from an earlier configuration is never kept, also after an
\* update that sets apiKey to the empty string.
C20_ClientBuiltFromCurrentConfig ==
    \A m \in HoldsClient :
        client[m].built =>
            (/\ client[m].apiKey = getConfig(m)["apiKey"]
             /\ client[m].baseUrl = getConfig(m)["baseUrl"])

(***************************************************************************)
(* Properties of the registry and the status map (SpecRegistry).           *)
(***************************************************************************)
\* C17: the stored isAvailable of a registered model changes only as the
\* effect of a testModelConnection or a setModelStatus for that name: every
\* other operation on a registered model (generateText, batchAnalyze,
\* updateModelConfig, clearCache, registerAdapter under the same name)
\* leaves it as it is.
C17_OtherOperationsKeepAvailability ==
    [][\A m \in adapters :
          (\/ RegisterAdapter(m)
           \/ UpdateModelConfig(m, KeyOnly)
           \/ ClearCache
           \/ \E p \in Prompts : GenerateText("c1", p, m) \/ BatchAnalyze("c1", p, m)
           \/ (calls["c1"].model = m /\ AdapterResolves("c1"))
           \/ (calls["c1"].model = m /\ \E kind \in ErrorKinds : AdapterRejects("c1", kind)))
              => (modelStatuses'[m].isAvailable = modelStatuses[m].isAvailable)]_vars

\* C18: testModelConnection on a registered name overwrites the stored
\* status with the outcome, whether the adapter resolves success, resolves
\* failure or throws: isAvailable is the success of the returned result, a
\* latency is stored on success only, the error is that of the result; no
\* other status is touched and the call returns a result.  On an
\* unregistered name it returns {success: false, error} and leaves the
\* status map and the registry unchanged.
C18_TestOverwritesStatus ==
    [][/\ (test.pc = "await" /\ test' # test) =>
              (/\ test'.pc = "done"
               /\ test'.name = test.name
               /\ modelStatuses'[test.name].present
               /\ modelStatuses'[test.name].isAvailable = test'.success
               /\ modelStatuses'[test.name].hasLatency = test'.success
               /\ modelStatuses'[test.name].error = test'.error
               /\ (~test'.success) => (test'.error # "undefined")
               /\ \A m \in ModelNames \ {test.name} : modelStatuses'[m] = modelStatuses[m]
               /\ adapters' = adapters)
       /\ (test.pc # "await" /\ test' # test /\ test'.name \notin adapters) =>
              (/\ test'.pc = "done"
               /\ ~test'.success
               /\ test'.error # "undefined"
               /\ modelStatuses' = modelStatuses
               /\ adapters' = adapters)]_vars

\* A test of a registered model has thrown, and the status of the model
\* holds that outcome.
C18_Witness ==
    /\ test.pc = "done"
    /\ test.registered
    /\ test.error = "ErrThrown"
    /\ modelStatuses[test.name] = Status(FALSE, FALSE, "ErrThrown")

\* C19: in every reachable state the names that have a ModelStatus are the
\* registered adapter names.
C19_StatusesMatchRegistry ==
    {m \in ModelNames : modelStatuses[m].present} = adapters

(***************************************************************************)
(* Properties of POST /generate (checked under SpecRoute).                 *)
(***************************************************************************)
\* C21: the credentials a /generate request supplies in modelConfigs do not
\* outlive the request: once the request has completed, and no other request
\* has been made, the configuration of the adapter and the status of the
\* model are what they were before the request.
C21_CredentialsNotKept ==
    \A c \in Calls :
        (/\ Finished(c)
         /\ calls[c].suppliedKey # Absent
         /\ \A d \in Calls \ {c} : ~Started(d))
            => (/\ getConfig(calls[c].model) = calls[c].configBefore
                /\ modelStatuses[calls[c].model] = calls[c].statusBefore)

(***************************************************************************)
(* Properties of the size and the order of the TF-IDF cache.               *)
(***************************************************************************)
\* C22: the cache never holds more than cacheMaxSize entries; a result
\* stored into a full cache takes the place of the entry inserted earliest,
\* the others keeping their order in front of it; and a call served from
\* the cache leaves the entries and their order as they were.
C22_BoundedFifoCache ==
    [][/\ Len(resultCache') <= cacheMaxSize
       /\ (callCount' # callCount /\ lastCall'.fromCache)
              => resultCache' = resultCache
       /\ (callCount' # callCount /\ lastCall'.computed
               /\ Len(resultCache) = cacheMaxSize)
              => /\ Len(resultCache') = cacheMaxSize
                 /\ SubSeq(resultCache', 1, cacheMaxSize - 1) = Tail(resultCache)
                 /\ resultCache'[cacheMaxSize].documents = lastCall'.documents
                 /\ resultCache'[cacheMaxSize].result = lastCall'.result]_vars

\* A full cache that has lost its earliest entry to a newer one, after a
\* call that was served from it.
C22_Witness ==
    /\ Len(resultCache) = cacheMaxSize
    /\ resultCache[1] = EarlierEntries[2]
    /\ lastCall.fromCache

(***************************************************************************)
(* The retry loop on its own, and its properties.                          *)
(***************************************************************************)
\* The manager with deepseek registered and both models marked available
\* with setModelStatus, under any of the configurations.
RetryInit ==
    /\ config \in ManagerConfigs
    /\ adapters = {"deepseek"}
    /\ modelStatuses = [m \in ModelNames |-> Status(TRUE, FALSE, "undefined")]
    /\ cache = [k \in CacheKeys |-> NoEntry]
    /\ now = 0
    /\ calls = [c \in Calls |-> IdleCall]
    /\ test = NoTest
    /\ adapterConfig = [m \in ModelNames |-> NoConfig]
    /\ lastUpdate = NoUpdate
    /\ client = [m \in ModelNames |-> NoClient]
    /\ ScorerIdle
    /\ ServicesIdle

\* The invocations and what their retry loops wait for.
RetryNext ==
    \/ \E c \in Calls, p \in Prompts, m \in ModelNames \cup {NoModel} : GenerateText(c, p, m)
    \/ \E c \in Calls, p \in Prompts, m \in ModelNames \cup {NoModel} : BatchAnalyze(c, p, m)
    \/ \E c \in Calls : AdapterResolves(c)
    \/ \E c \in Calls, kind \in ErrorKinds : AdapterRejects(c, kind)
    \/ \E c \in Calls : DelayElapsed(c)
    \/ Tick

SpecRetry == RetryInit /\ [][RetryNext]_vars

\* A step of invocation c that starts a new attempt of its loop.
StartsRetry(c) ==
    /\ calls[c].pc # "idle"
    /\ calls'[c].attempt > calls[c].attempt
    /\ calls'[c].pc \in {"await", "delay"}

\* A step of invocation c that begins a wait between attempts.
StartsDelay(c) ==
    /\ calls'[c].pc = "delay"
    /\ (calls[c].pc # "delay" \/ calls'[c].attempt # calls[c].attempt)

\* A step at which the awaited adapter call of invocation c resolves.
ReturnsFresh(c) ==
    /\ calls[c].pc = "await"
    /\ calls'[c].pc = "done"
    /\ calls'[c].outcome = "result"

\* The attempts of one invocation follow one another: a new attempt starts
\* only from the wait that followed a failed attempt, once the wait is
\* over; a wait begins only when a further attempt remains, so none
\* follows the final attempt.
SequentialAttempts(c) ==
    /\ StartsRetry(c) => /\ calls[c].pc = "delay"
                         /\ calls[c].lastError # "null"
                         /\ now >= calls[c].wakeAt
    /\ StartsDelay(c) => /\ calls'[c].wakeAt = now + EffRetryDelay
                         /\ calls'[c].wakeAt >= now + config.retryDelay
                         /\ calls'[c].attempt < EffMaxRetries
    /\ calls'[c].adapterCalls \in {calls[c].adapterCalls, calls[c].adapterCalls + 1}

\* The cache entry of invocation c holds the result it returns, stored now.
ResultCached(c) ==
    cache'[generateCacheKey(calls[c].op, calls[c].prompt)] =
        [present |-> TRUE, data |-> calls'[c].value, timestamp |-> now]

\* C23 as stated: the attempts of one invocation are strictly sequential,
\* each later one starting after the failure before it and one retryDelay;
\* no delay follows the final attempt; and the first successful result is
\* written to the cache before the call returns.
C23_SequentialAsStated ==
    [][\A c \in Calls :
          /\ SequentialAttempts(c)
          /\ ReturnsFresh(c) => ResultCached(c)]_vars

\* C23 (amended): the same, but the successful result is written to the
\* cache only when enableCaching is set; with caching disabled the call
\* returns it and leaves the cache as it was.
C23_SequentialAttempts ==
    [][\A c \in Calls :
          /\ SequentialAttempts(c)
          /\ ReturnsFresh(c) => IF config.enableCaching THEN ResultCached(c)
                                ELSE cache' = cache]_vars

\* Witness of C23: an invocation whose first attempt failed and whose
\* second, started after the delay, succeeded and left its result in the
\* cache.
C23_Witness ==
    \E c \in Calls :
        /\ Finished(c) /\ calls[c].outcome = "result" /\ ~calls[c].fromCache
        /\ calls[c].attempt = 2 /\ calls[c].adapterCalls = 2
        /\ calls[c].lastError # "null"
        /\ now >= config.retryDelay /\ config.retryDelay > 0
        /\ cache[generateCacheKey(calls[c].op, calls[c].prompt)].data = calls[c].value
        /\ cache[generateCacheKey(calls[c].op, calls[c].prompt)].present

(***************************************************************************)
(* Properties of the producer of a returned result.                        *)
(***************************************************************************)
\* C25: a result returned to an invocation that names preferredModel m was
\* produced by the adapter registered under m, never by the adapter of
\* another model.
C25_ResultFromPreferredModel ==
    \A c \in Calls :
        (Finished(c) /\ calls[c].outcome = "result" /\ calls[c].model \in ModelNames)
            => calls[c].value = calls[c].model

(***************************************************************************)
(* Properties of the API key of overlapping requests.                      *)
(***************************************************************************)
\* C26: every attempt of a POST /generate request that supplies an API key
\* for its model, the first and each retry, is made with that key: when the
\* attempt starts, the key the adapter holds (which it sends as the Bearer
\* token) is the key of the request, whatever other requests overlap it.
C26_AttemptUsesOwnKey ==
    [][\A c \in Calls :
          (/\ calls'[c].pc = "await"
           /\ calls[c].pc # "await"
           /\ calls'[c].suppliedKey # Absent)
              => adapterConfig'[calls'[c].model]["apiKey"] = calls'[c].suppliedKey]_vars

(***************************************************************************)
(* Properties of what the TF-IDF cache serves.                             *)
(***************************************************************************)
\* The cache entry under the key of the most recent call.
ServingEntry == CacheGet(resultCache, CacheKeyTable[lastCall.documents, lastCall.options])

\* C28: a call is served from the cache only by an entry that a call with
\* identical documents and identical options stored: collections that
\* differ never share an entry.
C28_HitOnlyForIdenticalInput ==
    (/\ lastCall.fromCache
     /\ CacheHas(resultCache, CacheKeyTable[lastCall.documents, lastCall.options]))
        => /\ ServingEntry.documents = lastCall.documents
           /\ ServingEntry.options = lastCall.options

\* C29: under default options a call on exactly one document returns the
\* empty list, and no term a call returns is reported in more than 80% of
\* the documents of the call.
C29_DefaultDocumentFrequencyCap ==
    (lastCall.called /\ lastCall.options = Options(Unset, Unset, Unset, Unset))
        => /\ Len(lastCall.documents) = 1 => lastCall.result = << >>
           /\ \A r \in Returned : 5 * r.documentCount <= 4 * Len(lastCall.documents)

(***************************************************************************)
(* DeepSeekAdapter (api/services/ai/adapters/DeepSeekAdapter.ts):          *)
(* testConnection and generateText as functions of the API key.            *)
(***************************************************************************)
DevelopmentKey == "sk-test-key-for-development"

\* The API keys of the model, each with its code units.
Spelling ==
    [k \in {"", DevelopmentKey, "sk-test-1", "contest", "sk-live-1"} |->
        CASE k = "" -> << >>
          [] k = DevelopmentKey ->
                <<"s", "k", "-", "t", "e", "s", "t", "-", "k", "e", "y", "-", "f", "o", "r", "-">>
                    \o <<"d", "e", "v", "e", "l", "o", "p", "m", "e", "n", "t">>
          [] k = "sk-test-1" -> <<"s", "k", "-", "t", "e", "s", "t", "-", "1">>
          [] k = "contest" -> <<"c", "o", "n", "t", "e", "s", "t">>
          [] k = "sk-live-1" -> <<"s", "k", "-", "l", "i", "v", "e", "-", "1">>]

ApiKeys == DOMAIN Spelling

\* String.prototype.startsWith and String.prototype.includes, on code units.
startsWith(text, prefix) ==
    Len(text) >= Len(prefix) /\ SubSeq(text, 1, Len(prefix)) = prefix

StringIncludes(text, part) ==
    \E i \in 1..(Len(text) - Len(part) + 1) : SubSeq(text, i, i + Len(part) - 1) = part

\* DeepSeekAdapter.validateConfig(config), after BaseAdapter.validateConfig:
\* what it throws, or "ok".
validateConfig(apiKey) ==
    IF ~Truthy(apiKey) THEN "ErrNoApiKey"
    ELSE IF apiKey = DevelopmentKey \/ StringIncludes(Spelling[apiKey], <<"t", "e", "s", "t">>)
    THEN "ErrTestKey"
    ELSE "ok"

\* The condition of the test-mode branch of testConnection and generateText.
TestMode(apiKey) ==
    \/ ~Truthy(apiKey)
    \/ apiKey = DevelopmentKey
    \/ startsWith(Spelling[apiKey], <<"s", "k", "-", "t", "e", "s", "t", "-">>)

\* testConnection / generateText up to the return, the throw or the await of
\* axios.post, with the key of the configuration it works on: whatever
\* validateConfig throws is caught (testConnection returns a failure,
\* generateText throws again); then the test-mode branch; then the request.
AdapterCallFrom(op, apiKey) ==
    LET call == [NoAdapterCall EXCEPT !.op = op, !.apiKey = apiKey]
    IN IF validateConfig(apiKey) # "ok"
       THEN [call EXCEPT !.pc = "done",
                         !.outcome = IF op = "testConnection" THEN "failure" ELSE "throws"]
       ELSE IF TestMode(apiKey)
       THEN [call EXCEPT !.pc = "done",
                         !.outcome = IF op = "testConnection" THEN "success" ELSE "simulated"]
       ELSE [call EXCEPT !.pc = "request", !.requested = TRUE]

\* testConnection(config?): the configuration passed, or this.config.
DeepSeekTestConnection(given) ==
    /\ adapterCall.pc # "request"
    /\ adapterCall' = AdapterCallFrom("testConnection",
                          IF given = Undefined THEN adapterConfig["deepseek"]["apiKey"]
                          ELSE given)
    /\ UNCHANGED <<mgrVars, adapterVars, scorerVars>>
    /\ UNCHANGED <<serviceConfig, legacy, lastRequestTime, pubmed, requestLog>>

\* generateText(prompt, options)
DeepSeekGenerateText ==
    /\ adapterCall.pc # "request"
    /\ adapterCall' = AdapterCallFrom("generateText", adapterConfig["deepseek"]["apiKey"])
    /\ UNCHANGED <<mgrVars, adapterVars, scorerVars>>
    /\ UNCHANGED <<serviceConfig, legacy, lastRequestTime, pubmed, requestLog>>

\* The request settles: a response with choices, a response without, or an
\* error of axios.
DeepSeekResponds(response) ==
    /\ adapterCall.pc = "request"
    /\ adapterCall' =
          [adapterCall EXCEPT
              !.pc = "done",
              !.outcome = IF adapterCall.op = "testConnection"
                          THEN (IF response = "choices" THEN "success" ELSE "failure")
                          ELSE (IF response = "choices" THEN "result" ELSE "throws")]
    /\ UNCHANGED <<mgrVars, adapterVars, scorerVars>>
    /\ UNCHANGED <<serviceConfig, legacy, lastRequestTime, pubmed, requestLog>>

\* The adapters as the routes module registers them, DeepSeek without a key
\* in the environment.
DeepSeekInit ==
    /\ config = [enableCaching |-> TRUE, cacheTimeout |-> DefaultCacheTimeout,
                 maxRetries |-> DefaultMaxRetries, retryDelay |-> DefaultRetryDelay]
    /\ adapters = ModelNames
    /\ modelStatuses = [m \in ModelNames |-> Status(FALSE, FALSE, "undefined")]
    /\ cache = [k \in CacheKeys |-> NoEntry]
    /\ now = 0
    /\ calls = [c \in Calls |-> IdleCall]
    /\ test = NoTest
    /\ adapterConfig = [m \in ModelNames |->
          [f \in Fields |-> IF m = "deepseek" /\ f = "baseUrl" THEN "https://api.deepseek.com"
                            ELSE IF m = "deepseek" /\ f = "model" THEN "deepseek-chat"
                            ELSE ""]]
    /\ lastUpdate = NoUpdate
    /\ client = [m \in ModelNames |-> NoClient]
    /\ ScorerIdle
    /\ ServicesIdle

DeepSeekNext ==
    \/ \E k \in ApiKeys :
          UpdateModelConfig("deepseek", [f \in Fields |-> IF f = "apiKey" THEN k ELSE Absent])
    \/ \E given \in ApiKeys \cup {Undefined} : DeepSeekTestConnection(given)
    \/ DeepSeekGenerateText
    \/ \E response \in {"choices", "no choices", "error"} : DeepSeekResponds(response)

SpecDeepSeek == DeepSeekInit /\ [][DeepSeekNext]_vars

\* C24: with the key 'sk-test-key-for-development', or a key that starts
\* with 'sk-test-', testConnection resolves with success = true and
\* generateText returns the simulated response, and neither issues a
\* network request.
C24_TestModeSimulates ==
    (/\ adapterCall.pc = "done"
     /\ Truthy(adapterCall.apiKey)
     /\ \/ adapterCall.apiKey = DevelopmentKey
        \/ startsWith(Spelling[adapterCall.apiKey], <<"s", "k", "-", "t", "e", "s", "t", "-">>))
        => /\ ~adapterCall.requested
           /\ adapterCall.outcome =
                 IF adapterCall.op = "testConnection" THEN "success" ELSE "simulated"

(***************************************************************************)
(* DeepSeekService and the legacy routes POST /analyze/article and         *)
(* POST /analyze/batch.                                                    *)
(***************************************************************************)
\* req.body.deepseekConfig: left out (not present), or an object with some of
\* its keys.
DeepSeekConfigs ==
    {[present |-> FALSE, apiKey |-> Absent, baseUrl |-> Absent],
     [present |-> TRUE, apiKey |-> "kA", baseUrl |-> Absent],
     [present |-> TRUE, apiKey |-> "kB", baseUrl |-> "uB"],
     [present |-> TRUE, apiKey |-> Absent, baseUrl |-> "uC"]}

\* DeepSeekService.updateConfig(config): a key is taken when it is not
\* undefined.
ServiceUpdateConfig(current, update) ==
    [f \in {"apiKey", "baseUrl"} |->
        IF update[f] \in {Absent, Undefined} THEN current[f] ELSE update[f]]

\* A legacy handler up to its await: a request that fails validation is
\* answered with 400; otherwise a deepseekConfig, when given, is written into
\* the service after the service's configuration has been saved, and the
\* analysis is awaited.
LegacyAnalyze(r, route, valid, deepseekConfig) ==
    /\ legacy[r].pc = "idle"
    /\ legacy' = [legacy EXCEPT ![r] =
          IF ~valid
          THEN [IdleRequest EXCEPT !.pc = "done", !.route = route, !.status = 400]
          ELSE [IdleRequest EXCEPT !.pc = "await", !.route = route,
                                   !.applied = deepseekConfig.present,
                                   !.originalConfig =
                                       IF deepseekConfig.present THEN serviceConfig
                                       ELSE IdleRequest.originalConfig]]
    /\ serviceConfig' = IF valid /\ deepseekConfig.present
                        THEN ServiceUpdateConfig(serviceConfig, deepseekConfig)
                        ELSE serviceConfig
    /\ UNCHANGED <<mgrVars, adapterVars, scorerVars>>
    /\ UNCHANGED <<adapterCall, lastRequestTime, pubmed, requestLog>>

\* router.post('/analyze/article')
AnalyzeArticle(r, valid, deepseekConfig) ==
    LegacyAnalyze(r, "/analyze/article", valid, deepseekConfig)

\* router.post('/analyze/batch')
AnalyzeBatch(r, valid, deepseekConfig) ==
    LegacyAnalyze(r, "/analyze/batch", valid, deepseekConfig)

\* The awaited analysis settles: the saved configuration is written back,
\* whether the analysis resolved or rejected, and the response is sent.
AnalysisSettles(r, resolved) ==
    /\ legacy[r].pc = "await"
    /\ serviceConfig' = IF legacy[r].applied
                        THEN ServiceUpdateConfig(serviceConfig, legacy[r].originalConfig)
                        ELSE serviceConfig
    /\ legacy' = [legacy EXCEPT ![r].pc = "done",
                                ![r].status = IF resolved THEN 200 ELSE 500]
    /\ UNCHANGED <<mgrVars, adapterVars, scorerVars>>
    /\ UNCHANGED <<adapterCall, lastRequestTime, pubmed, requestLog>>

LegacyInit == DeepSeekInit

LegacyNext ==
    \/ \E r \in LegacyRequests, valid \in BOOLEAN, cfg \in DeepSeekConfigs :
          AnalyzeArticle(r, valid, cfg)
    \/ \E r \in LegacyRequests, valid \in BOOLEAN, cfg \in DeepSeekConfigs :
          AnalyzeBatch(r, valid, cfg)
    \/ \E r \in LegacyRequests, resolved \in BOOLEAN : AnalysisSettles(r, resolved)

SpecLegacy == LegacyInit /\ [][LegacyNext]_vars

\* C27: once every request of the legacy routes that was in flight has
\* completed, the configuration of the DeepSeekService singleton is the one
\* it had before the requests started, whatever the order in which the
\* overlapping requests began and ended.
C27_ConfigRestored ==
    (\A r \in LegacyRequests : legacy[r].pc # "await") => serviceConfig = EnvServiceConfig

(***************************************************************************)
(* PubMedService (api/src/services/pubmed.ts): the rate limit of the       *)
(* esearch and efetch requests.  Times are in milliseconds.                *)
(***************************************************************************)
\* The service under check: new PubMedService({rateLimit: 10,
\* retryAttempts: 2, retryDelay: 100}).
PubMedConfig == [rateLimit |-> 10, retryAttempts |-> 2, retryDelay |-> 100]

StartClock == 1000          \* Date.now() at the first call of a run
ClockStep == 50             \* the clock is observed every ClockStep ms
MaxClock == 1250            \* the clock of a run stops here

\* const minInterval = 1000 / this.rateLimit
MinInterval == 1000 \div PubMedConfig.rateLimit

\* A call (record r) enters enforceRateLimit and goes on to its request: when
\* the last request is less than minInterval old it waits for the rest of
\* the interval; otherwise lastRequestTime is set and axios.get is called in
\* the same turn.
BeginRequest(q, r) ==
    LET timeSinceLastRequest == now - lastRequestTime
        waits == timeSinceLastRequest < MinInterval
    IN /\ pubmed' = [pubmed EXCEPT ![q] =
             IF waits
             THEN [r EXCEPT !.pc = "limit",
                            !.wakeAt = now + (MinInterval - timeSinceLastRequest)]
             ELSE [r EXCEPT !.pc = "request", !.wakeAt = 0]]
       /\ lastRequestTime' = IF waits THEN lastRequestTime ELSE now
       /\ requestLog' = IF waits THEN requestLog ELSE Append(requestLog, now)
       /\ UNCHANGED <<config, adapters, modelStatuses, cache, now, calls, test>>
       /\ UNCHANGED <<adapterVars, scorerVars, adapterCall, serviceConfig, legacy>>

\* searchArticles(query): the first attempt of executeWithRetry starts with
\* the esearch request.
SearchArticles(q) ==
    /\ pubmed[q].pc = "idle"
    /\ BeginRequest(q, [IdlePubMedCall EXCEPT !.kind = "search", !.stage = "esearch",
                                              !.attempt = 1])

\* getArticleById(pmid): fetchArticleDetails, whose executeWithRetry starts
\* with the efetch request.
GetArticleById(q) ==
    /\ pubmed[q].pc = "idle"
    /\ BeginRequest(q, [IdlePubMedCall EXCEPT !.kind = "fetch", !.stage = "efetch",
                                              !.inner = 1])

\* The setTimeout of enforceRateLimit fires: lastRequestTime is set and the
\* request is sent.
RateTimerFires(q) ==
    /\ pubmed[q].pc = "limit"
    /\ now >= pubmed[q].wakeAt
    /\ pubmed' = [pubmed EXCEPT ![q].pc = "request", ![q].wakeAt = 0]
    /\ lastRequestTime' = now
    /\ requestLog' = Append(requestLog, now)
    /\ UNCHANGED <<mgrVars, adapterVars, scorerVars, adapterCall, serviceConfig, legacy>>

\* The request resolves: an esearch answer without PMIDs ends the call, one
\* with PMIDs leads on to fetchArticleDetails; an efetch answer ends it.
RequestResolves(q, found) ==
    /\ pubmed[q].pc = "request"
    /\ IF pubmed[q].stage = "esearch" /\ found
       THEN BeginRequest(q, [pubmed[q] EXCEPT !.stage = "efetch", !.inner = 1])
       ELSE /\ pubmed' = [pubmed EXCEPT ![q].pc = "done", ![q].outcome = "result"]
            /\ UNCHANGED <<lastRequestTime, requestLog>>
            /\ UNCHANGED <<mgrVars, adapterVars, scorerVars, adapterCall, serviceConfig, legacy>>

\* The catch block of the executeWithRetry whose attempt counter is n: wait
\* retryDelay * attempt when an attempt is left, else throw.  level names
\* the executeWithRetry; the one of fetchArticleDetails throws into that of
\* searchArticles when the call is a search, and into getArticleById, which
\* returns null, otherwise.
RECURSIVE Caught(_, _)
Caught(r, level) ==
    LET n == IF level = "inner" THEN r.inner ELSE r.attempt
    IN IF n < PubMedConfig.retryAttempts
       THEN [r EXCEPT !.pc = "retry", !.waitsFor = level,
                      !.wakeAt = now + PubMedConfig.retryDelay * n]
       ELSE IF level = "inner" /\ r.kind = "search"
       THEN Caught(r, "outer")
       ELSE [r EXCEPT !.pc = "done",
                      !.outcome = IF r.kind = "fetch" THEN "null" ELSE "error"]

\* The request rejects.
RequestRejects(q) ==
    /\ pubmed[q].pc = "request"
    /\ pubmed' = [pubmed EXCEPT ![q] =
          Caught(pubmed[q], IF pubmed[q].stage = "efetch" THEN "inner" ELSE "outer")]
    /\ UNCHANGED <<lastRequestTime, requestLog>>
    /\ UNCHANGED <<mgrVars, adapterVars, scorerVars, adapterCall, serviceConfig, legacy>>

\* The setTimeout of executeWithRetry fires: the next attempt runs the
\* operation again, from its enforceRateLimit.
RetryTimerFires(q) ==
    /\ pubmed[q].pc = "retry"
    /\ now >= pubmed[q].wakeAt
    /\ BeginRequest(q, IF pubmed[q].waitsFor = "inner"
                       THEN [pubmed[q] EXCEPT !.inner = @ + 1, !.waitsFor = "none"]
                       ELSE [pubmed[q] EXCEPT !.attempt = @ + 1, !.stage = "esearch",
                                              !.inner = 0, !.waitsFor = "none"])

\* Time passes.
ClockAdvances ==
    /\ now + ClockStep <= MaxClock
    /\ now' = now + ClockStep
    /\ UNCHANGED <<config, adapters, modelStatuses, cache, calls, test>>
    /\ UNCHANGED <<adapterVars, scorerVars, serviceVars>>

\* The singleton as constructed (lastRequestTime = 0), at the time of the
\* first call.
PubMedInit ==
    /\ config = [enableCaching |-> TRUE, cacheTimeout |-> DefaultCacheTimeout,
                 maxRetries |-> DefaultMaxRetries, retryDelay |-> DefaultRetryDelay]
    /\ adapters = {}
    /\ modelStatuses = [m \in ModelNames |-> NoStatus]
    /\ cache = [k \in CacheKeys |-> NoEntry]
    /\ now = StartClock
    /\ calls = [c \in Calls |-> IdleCall]
    /\ test = NoTest
    /\ adapterConfig = [m \in ModelNames |-> NoConfig]
    /\ lastUpdate = NoUpdate
    /\ client = [m \in ModelNames |-> NoClient]
    /\ ScorerIdle
    /\ ServicesIdle

PubMedNext ==
    \/ \E q \in PubMedCalls : SearchArticles(q)
    \/ \E q \in PubMedCalls : GetArticleById(q)
    \/ \E q \in PubMedCalls : RateTimerFires(q)
    \/ \E q \in PubMedCalls, found \in BOOLEAN : RequestResolves(q, found)
    \/ \E q \in PubMedCalls : RequestRejects(q)
    \/ \E q \in PubMedCalls : RetryTimerFires(q)
    \/ ClockAdvances

SpecPubMed == PubMedInit /\ [][PubMedNext]_vars

\* C30: any two esearch / efetch requests of the service start at least
\* 1000 / rateLimit milliseconds apart, also when calls overlap.
C30_RequestsSpaced ==
    \A i, j \in 1..Len(requestLog) :
        i < j => requestLog[j] - requestLog[i] >= MinInterval

====
